---- MODULE Spec2Model ----
(***************************************************************************)
(* Receipt / invoice field extraction (Fl1praze/hakaton).                  *)
(*                                                                         *)
(* A document text is a sequence of Unicode code points, exactly as the    *)
(* Python `str` the extractors search.  Regular expressions are kept as    *)
(* syntax trees (the trees Python's own parser builds for the pattern      *)
(* literals of the sources) and are run by a backtracking matcher with     *)
(* Python's priorities: leftmost start, alternatives in order, greedy      *)
(* repeats longest-first, lazy repeats shortest-first.                     *)
(*                                                                         *)
(* A Python dict is a function from key strings to values; every value is  *)
(* a record [ty, v]: ty is "str" (v = code points), "float" (v = <<the     *)
(* amount in hundredths>>), "dict" (v = the items, in insertion order).    *)
(***************************************************************************)
EXTENDS Integers, Sequences, FiniteSets, TLC

VARIABLES
    doc,               \* the PDF submitted to the single-document pipeline
    HYBRID_BERT_MODEL, \* processor.HYBRID_BERT_MODEL: the extractor object, or NoModel
    last,              \* what the latest extract_invoice_data call did (NoCall before it)
    prediction,        \* what the latest call of the trainable extractor did
    files,             \* the files uploaded to /process-pdf-batch
    tasks,             \* per file: the position of its process_one_file coroutine
    finished,          \* indices of the files, in the order their coroutines ended
    response,          \* what /process-pdf-batch returned (NoResponse before it)
    pattern_weights,   \* InvoiceDataExtractor.pattern_weights
    is_trained,        \* InvoiceDataExtractor.is_trained
    training,          \* the position of the running train() call
    training_history,  \* InvoiceDataExtractor.training_history
    train_calls,       \* number of train() calls started so far
    training_date,     \* InvoiceDataExtractor.training_date: the clock at the end of a train() call
    pdf_files,         \* the PDFs of the folder pdf_for_study, as main() lists them
    training_data,     \* main()'s list of (text, data) examples
    labelling,         \* main()'s position in the folder and its latest result
    model_file,        \* what InvoiceDataExtractor.save pickled to the file (NoFile before it)
    loaded             \* what the latest InvoiceDataExtractor.load did (NoLoad before it)

apiVars == <<doc, HYBRID_BERT_MODEL, last>>
batchVars == <<files, tasks, finished, response>>
trainVars == <<pattern_weights, is_trained, training, training_history, train_calls, training_date>>
labelVars == <<pdf_files, training_data, labelling>>
storeVars == <<model_file, loaded>>
vars == <<doc, HYBRID_BERT_MODEL, last, prediction, files, tasks, finished, response,
          pattern_weights, is_trained, training, training_history, train_calls, training_date,
          pdf_files, training_data, labelling, model_file, loaded>>

(***************************************************************************)
(* Character classes of Python 3 `re` on str patterns.                     *)
(***************************************************************************)
\* \d : decimal digits; ASCII 0-9 and, as a sample of the other Unicode
\* decimal digits that \d also accepts, ARABIC-INDIC 0-9 (U+0660..U+0669).
AsciiDigit == 48..57
Digit == AsciiDigit \cup (1632..1641)
\* \s and str.strip(): TAB LF VT FF CR, SPACE, U+001C..U+001F, NEL, NBSP
Space == (9..13) \cup {32} \cup (28..31) \cup {133, 160}
LatinUpper == 65..90
LatinLower == 97..122
\* U+0410..U+042F A-YA, U+0401 IO; U+0430..U+044F a-ya, U+0451 io
CyrUpper == (1040..1071) \cup {1025}
CyrLower == (1072..1103) \cup {1105}
\* \w : letters, digits and the underscore
Word == Digit \cup LatinUpper \cup LatinLower \cup CyrUpper \cup CyrLower \cup {95}

\* str.lower() / str.upper() on one character
Lower(c) ==
    IF c \in LatinUpper THEN c + 32
    ELSE IF c \in 1040..1071 THEN c + 32
    ELSE IF c = 1025 THEN 1105
    ELSE c

Upper(c) ==
    IF c \in LatinLower THEN c - 32
    ELSE IF c \in 1072..1103 THEN c - 32
    ELSE IF c = 1105 THEN 1025
    ELSE c

(***************************************************************************)
(* Pattern syntax.  A pattern is a sequence of nodes.                      *)
(***************************************************************************)
Str(s) == [op |-> "str", s |-> s]
In(S) == [op |-> "in", neg |-> FALSE, set |-> S]
NotIn(S) == [op |-> "in", neg |-> TRUE, set |-> S]
\* hi = -1 : unbounded.  at : position where the previous iteration began.
Rep(lo, hi, item) == [op |-> "rep", greedy |-> TRUE, lo |-> lo, hi |-> hi, item |-> item, at |-> 0]
Lazy(lo, hi, item) == [op |-> "rep", greedy |-> FALSE, lo |-> lo, hi |-> hi, item |-> item, at |-> 0]
\* n = 0 : non-capturing
Group(n, item) == [op |-> "group", n |-> n, item |-> item]
Branch(alts) == [op |-> "branch", alts |-> alts]
At(kind) == [op |-> "at", kind |-> kind]

NoCaps == [n \in 1..4 |-> <<0, 0>>]
Fail == [ok |-> FALSE, start |-> 0, end |-> 0, caps |-> NoCaps]

\* one character against a class, honouring re.IGNORECASE
CharIn(c, node, ic) ==
    LET hit == IF ic THEN (c \in node.set \/ Lower(c) \in node.set \/ Upper(c) \in node.set)
               ELSE c \in node.set
    IN  IF node.neg THEN ~hit ELSE hit

CharEq(c, d, ic) == IF ic THEN Lower(c) = Lower(d) ELSE c = d

StrAt(text, s, i, ic) ==
    /\ i + Len(s) - 1 <= Len(text)
    /\ \A j \in 1..Len(s) : CharEq(text[i + j - 1], s[j], ic)

IsWordAt(text, i) == i >= 1 /\ i <= Len(text) /\ text[i] \in Word

AtHolds(text, kind, i) ==
    CASE kind = "boundary" -> IsWordAt(text, i - 1) # IsWordAt(text, i)
      [] kind = "begin" -> i = 1
      [] kind = "end" -> i = Len(text) + 1 \/ (i = Len(text) /\ text[i] = 10)

\* a repeat of one character class, e.g. \d{10,12} or [:\s]*
IsCharRep(h) == Len(h.item) = 1 /\ h.item[1].op = "in"

\* how many consecutive characters from position i are in the class, counting
\* no further than `most` of them
RunLen(text, node, ic, i, most) ==
    LET to == IF i + most - 1 < Len(text) THEN i + most - 1 ELSE Len(text)
    IN  IF \A j \in i..to : CharIn(text[j], node, ic) THEN to - i + 1
        ELSE (CHOOSE j \in i..to : /\ ~CharIn(text[j], node, ic)
                                    /\ \A y \in i..(j - 1) : CharIn(text[y], node, ic)) - i

\* the first of two attempts that matched
OrElse(r, alt) == IF r.ok THEN r ELSE alt

\* the attempts <<n, result>> that matched
Fitting(tries) == {t \in tries : t[2].ok}

\* of the attempts that matched, the result of the one with the greatest n
\* (greedy) or with the least n (lazy)
PickCount(fits, greedy) ==
    IF fits = {} THEN Fail
    ELSE IF greedy THEN (CHOOSE t \in fits : \A u \in fits : u[1] <= t[1])[2]
    ELSE (CHOOSE t \in fits : \A u \in fits : t[1] <= u[1])[2]

\* a match that began at position t[1]
StartAt(t) == [t[2] EXCEPT !.start = t[1]]

\* of the attempts that matched, the one that began leftmost
Leftmost(fits) ==
    IF fits = {} THEN Fail ELSE StartAt(CHOOSE t \in fits : \A u \in fits : t[1] <= u[1])

(***************************************************************************)
(* MatchHere: the first way, in backtracking order, in which the nodes k   *)
(* match text from position i (1-based); caps[n] = <<start, end>> of group *)
(* n, end exclusive.                                                       *)
(***************************************************************************)
RECURSIVE MatchHere(_, _, _, _, _)
MatchHere(text, ic, k, i, caps) ==
    IF k = <<>> THEN [ok |-> TRUE, start |-> 0, end |-> i, caps |-> caps]
    ELSE
    LET h == Head(k)
        rest == Tail(k)
    IN  CASE h.op = "str" ->
              IF StrAt(text, h.s, i, ic) THEN MatchHere(text, ic, rest, i + Len(h.s), caps) ELSE Fail
          [] h.op = "in" ->
              IF i <= Len(text) /\ CharIn(text[i], h, ic)
              THEN MatchHere(text, ic, rest, i + 1, caps) ELSE Fail
          [] h.op = "at" ->
              IF AtHolds(text, h.kind, i) THEN MatchHere(text, ic, rest, i, caps) ELSE Fail
          [] h.op = "group" ->
              MatchHere(text, ic, h.item \o <<[op |-> "close", n |-> h.n, from |-> i]>> \o rest, i, caps)
          [] h.op = "close" ->
              MatchHere(text, ic, rest, i,
                        IF h.n = 0 THEN caps ELSE [caps EXCEPT ![h.n] = <<h.from, i>>])
          [] h.op = "branch" ->
              IF h.alts = <<>> THEN Fail
              ELSE OrElse(MatchHere(text, ic, Head(h.alts) \o rest, i, caps),
                          MatchHere(text, ic, <<Branch(Tail(h.alts))>> \o rest, i, caps))
          [] h.op = "rep" /\ IsCharRep(h) ->
              \* a repeated character class: the counts are tried longest-first
              \* (greedy) or shortest-first (lazy) against the rest of the pattern
              PickCount(
                  Fitting({<<c, MatchHere(text, ic, rest, i + c, caps)>> :
                              c \in h.lo..RunLen(text, h.item[1], ic, i,
                                                 IF h.hi >= 0 THEN h.hi ELSE Len(text))}),
                  h.greedy)
          [] h.op = "rep" /\ ~IsCharRep(h) ->
              LET again == [h EXCEPT !.lo = IF h.lo > 0 THEN h.lo - 1 ELSE 0,
                                     !.hi = IF h.hi > 0 THEN h.hi - 1 ELSE h.hi,
                                     !.at = i]
                  canMore == h.hi # 0 /\ (h.lo > 0 \/ h.at # i)
                  more == IF canMore THEN MatchHere(text, ic, h.item \o <<again>> \o rest, i, caps)
                          ELSE Fail
                  stop == IF h.lo = 0 THEN MatchHere(text, ic, rest, i, caps) ELSE Fail
              IN  IF h.greedy THEN OrElse(more, stop) ELSE OrElse(stop, more)

\* re.search from position `from`: leftmost start wins
SearchFrom(text, ic, pat, from) ==
    Leftmost(Fitting({<<b, MatchHere(text, ic, pat, b, NoCaps)>> : b \in from..(Len(text) + 1)}))

search(pat, text, ic) == SearchFrom(text, ic, pat, 1)

\* re.finditer: successive non-overlapping matches, left to right; r is the
\* match found last and the search goes on from its end
RECURSIVE FindFrom(_, _, _, _)
FindFrom(text, ic, pat, r) ==
    IF ~r.ok THEN <<>>
    ELSE <<r>> \o FindFrom(text, ic, pat,
                           SearchFrom(text, ic, pat, IF r.end = r.start THEN r.end + 1 ELSE r.end))

finditer(pat, text, ic) == FindFrom(text, ic, pat, SearchFrom(text, ic, pat, 1))

\* match.group(n); group(0) is the whole match
group(text, m, n) ==
    IF n = 0 THEN SubSeq(text, m.start, m.end - 1)
    ELSE SubSeq(text, m.caps[n][1], m.caps[n][2] - 1)

(***************************************************************************)
(* The pattern literals of the sources, as parsed by Python's regex        *)
(* parser (alternatives with a common prefix are factored by that parser;  *)
(* the language and the order of alternatives are unchanged).              *)
(***************************************************************************)
\* app/processor.py:138-138  process_with_regex
\*   r"ИНН[:\s]*(\d{10,12})"
processor_inn_re ==
    <<Str(<<1048, 1053, 1053>>), Rep(0, -1, <<In({58} \cup Space)>>), Group(1, <<Rep(10, 12, <<In(Digit)>>)>>)>>

\* app/processor.py:146-151  process_with_regex
\*   r"(ООО\s+[\"«]?[^\"»\n]+[\"»]?)"
\*   r"(АО\s+[\"«]?[^\"»\n]+[\"»]?)"
\*   r"(ИП\s+[А-ЯЁ][а-яё]+\s+[А-ЯЁ][а-яё]+\s+[А-ЯЁ][а-яё]+)"
\*   r"([А-ЯЁ][А-ЯЁ\s]+(?:ООО|АО|ИП))"
processor_vendor_patterns == <<
    <<Group(1, <<Str(<<1054, 1054, 1054>>), Rep(1, -1, <<In(Space)>>), Rep(0, 1, <<In({34, 171})>>), Rep(1, -1, <<NotIn({34, 187, 10})>>), Rep(0, 1, <<In({34, 187})>>)>>)>>,
    <<Group(1, <<Str(<<1040, 1054>>), Rep(1, -1, <<In(Space)>>), Rep(0, 1, <<In({34, 171})>>), Rep(1, -1, <<NotIn({34, 187, 10})>>), Rep(0, 1, <<In({34, 187})>>)>>)>>,
    <<Group(1, <<Str(<<1048, 1055>>), Rep(1, -1, <<In(Space)>>), In({1025} \cup (1040..1071)), Rep(1, -1, <<In({1105} \cup (1072..1103))>>), Rep(1, -1, <<In(Space)>>), In({1025} \cup (1040..1071)), Rep(1, -1, <<In({1105} \cup (1072..1103))>>), Rep(1, -1, <<In(Space)>>), In({1025} \cup (1040..1071)), Rep(1, -1, <<In({1105} \cup (1072..1103))>>)>>)>>,
    <<Group(1, <<In({1025} \cup (1040..1071)), Rep(1, -1, <<In({1025} \cup (1040..1071) \cup Space)>>), Branch(<<<<Str(<<1054, 1054, 1054>>)>>, <<Str(<<1040, 1054>>)>>, <<Str(<<1048, 1055>>)>>>>)>>)>>
>>

\* app/processor.py:165-170  process_with_regex
\*   r"Счет[:\s-]*(?:фактура)?[:\s#№]*(\d+)"
\*   r"Чек[:\s#№]*(\d+)"
\*   r"Документ[:\s#№]*(\d+)"
\*   r"№[:\s]*(\d+)"
processor_invoice_patterns == <<
    <<Str(<<1057, 1095, 1077, 1090>>), Rep(0, -1, <<In({58, 45} \cup Space)>>), Rep(0, 1, <<Str(<<1092, 1072, 1082, 1090, 1091, 1088, 1072>>)>>), Rep(0, -1, <<In({58, 35, 8470} \cup Space)>>), Group(1, <<Rep(1, -1, <<In(Digit)>>)>>)>>,
    <<Str(<<1063, 1077, 1082>>), Rep(0, -1, <<In({58, 35, 8470} \cup Space)>>), Group(1, <<Rep(1, -1, <<In(Digit)>>)>>)>>,
    <<Str(<<1044, 1086, 1082, 1091, 1084, 1077, 1085, 1090>>), Rep(0, -1, <<In({58, 35, 8470} \cup Space)>>), Group(1, <<Rep(1, -1, <<In(Digit)>>)>>)>>,
    <<Str(<<8470>>), Rep(0, -1, <<In({58} \cup Space)>>), Group(1, <<Rep(1, -1, <<In(Digit)>>)>>)>>
>>

\* app/processor.py:184-190  process_with_regex
\*   r"(\d{2}\.\d{2}\.\d{4})"
\*   r"(\d{2}/\d{2}/\d{4})"
\*   r"(\d{2}\.\d{2}\.\d{2})"
\*   r"(\d{1,2}\s+(?:января|февраля|марта|апреля|мая|июня|июля|августа|сентября|октября|ноября|декабря)\s+\d{4})"
\*   r"(\d{1,2}\s+(?:янв|фев|мар|апр|мая|июн|июл|авг|сен|окт|ноя|дек)\s+\d{4})"
processor_date_patterns == <<
    <<Group(1, <<Rep(2, 2, <<In(Digit)>>), Str(<<46>>), Rep(2, 2, <<In(Digit)>>), Str(<<46>>), Rep(4, 4, <<In(Digit)>>)>>)>>,
    <<Group(1, <<Rep(2, 2, <<In(Digit)>>), Str(<<47>>), Rep(2, 2, <<In(Digit)>>), Str(<<47>>), Rep(4, 4, <<In(Digit)>>)>>)>>,
    <<Group(1, <<Rep(2, 2, <<In(Digit)>>), Str(<<46>>), Rep(2, 2, <<In(Digit)>>), Str(<<46>>), Rep(2, 2, <<In(Digit)>>)>>)>>,
    <<Group(1, <<Rep(1, 2, <<In(Digit)>>), Rep(1, -1, <<In(Space)>>), Branch(<<<<Str(<<1103, 1085, 1074, 1072, 1088, 1103>>)>>, <<Str(<<1092, 1077, 1074, 1088, 1072, 1083, 1103>>)>>, <<Str(<<1084, 1072, 1088, 1090, 1072>>)>>, <<Str(<<1072, 1087, 1088, 1077, 1083, 1103>>)>>, <<Str(<<1084, 1072, 1103>>)>>, <<Str(<<1080, 1102, 1085, 1103>>)>>, <<Str(<<1080, 1102, 1083, 1103>>)>>, <<Str(<<1072, 1074, 1075, 1091, 1089, 1090, 1072>>)>>, <<Str(<<1089, 1077, 1085, 1090, 1103, 1073, 1088, 1103>>)>>, <<Str(<<1086, 1082, 1090, 1103, 1073, 1088, 1103>>)>>, <<Str(<<1085, 1086, 1103, 1073, 1088, 1103>>)>>, <<Str(<<1076, 1077, 1082, 1072, 1073, 1088, 1103>>)>>>>), Rep(1, -1, <<In(Space)>>), Rep(4, 4, <<In(Digit)>>)>>)>>,
    <<Group(1, <<Rep(1, 2, <<In(Digit)>>), Rep(1, -1, <<In(Space)>>), Branch(<<<<Str(<<1103, 1085, 1074>>)>>, <<Str(<<1092, 1077, 1074>>)>>, <<Str(<<1084, 1072, 1088>>)>>, <<Str(<<1072, 1087, 1088>>)>>, <<Str(<<1084, 1072, 1103>>)>>, <<Str(<<1080, 1102, 1085>>)>>, <<Str(<<1080, 1102, 1083>>)>>, <<Str(<<1072, 1074, 1075>>)>>, <<Str(<<1089, 1077, 1085>>)>>, <<Str(<<1086, 1082, 1090>>)>>, <<Str(<<1085, 1086, 1103>>)>>, <<Str(<<1076, 1077, 1082>>)>>>>), Rep(1, -1, <<In(Space)>>), Rep(4, 4, <<In(Digit)>>)>>)>>
>>

\* app/processor.py:204-207  process_with_regex
\*   r"(?:Итого|ИТОГО|Всего|ВСЕГО|К оплате|Сумма)[:\s=]*([\d\s]+[.,]\d{2})"
\*   r"(?:итог|total)[:\s=]*([\d\s]+[.,]\d{2})"
processor_total_patterns == <<
    <<Branch(<<<<Str(<<1048, 1090, 1086, 1075, 1086>>)>>, <<Str(<<1048, 1058, 1054, 1043, 1054>>)>>, <<Str(<<1042, 1089, 1077, 1075, 1086>>)>>, <<Str(<<1042, 1057, 1045, 1043, 1054>>)>>, <<Str(<<1050, 32, 1086, 1087, 1083, 1072, 1090, 1077>>)>>, <<Str(<<1057, 1091, 1084, 1084, 1072>>)>>>>), Rep(0, -1, <<In({58, 61} \cup Space)>>), Group(1, <<Rep(1, -1, <<In(Digit \cup Space)>>), In({46, 44}), Rep(2, 2, <<In(Digit)>>)>>)>>,
    <<Branch(<<<<Str(<<1080, 1090, 1086, 1075>>)>>, <<Str(<<116, 111, 116, 97, 108>>)>>>>), Rep(0, -1, <<In({58, 61} \cup Space)>>), Group(1, <<Rep(1, -1, <<In(Digit \cup Space)>>), In({46, 44}), Rep(2, 2, <<In(Digit)>>)>>)>>
>>

\* app/processor.py:226-226  process_with_regex
\*   r"[\+]?[7-8][\s-]?\(?(\d{3})\)?[\s-]?(\d{3})[\s-]?(\d{2})[\s-]?(\d{2})"
processor_phone_re ==
    <<Rep(0, 1, <<Str(<<43>>)>>), In((55..56)), Rep(0, 1, <<In({45} \cup Space)>>), Rep(0, 1, <<Str(<<40>>)>>), Group(1, <<Rep(3, 3, <<In(Digit)>>)>>), Rep(0, 1, <<Str(<<41>>)>>), Rep(0, 1, <<In({45} \cup Space)>>), Group(2, <<Rep(3, 3, <<In(Digit)>>)>>), Rep(0, 1, <<In({45} \cup Space)>>), Group(3, <<Rep(2, 2, <<In(Digit)>>)>>), Rep(0, 1, <<In({45} \cup Space)>>), Group(4, <<Rep(2, 2, <<In(Digit)>>)>>)>>

\* app/processor.py:231-231  process_with_regex
\*   r"([a-zA-Z0-9._%+-]+@[a-zA-Z0-9.-]+\.[a-zA-Z]{2,})"
processor_email_re ==
    <<Group(1, <<Rep(1, -1, <<In({46, 95, 37, 43, 45} \cup (97..122) \cup (65..90) \cup (48..57))>>), Str(<<64>>), Rep(1, -1, <<In({46, 45} \cup (97..122) \cup (65..90) \cup (48..57))>>), Str(<<46>>), Rep(2, -1, <<In((97..122) \cup (65..90))>>)>>)>>

\* app/processor.py:236-236  process_with_regex
\*   r"(?:Адрес|ADDRESS|адрес)[:\s]*([^\n]{10,100})"
processor_address_re ==
    <<Branch(<<<<Str(<<1040, 1076, 1088, 1077, 1089>>)>>, <<Str(<<65, 68, 68, 82, 69, 83, 83>>)>>, <<Str(<<1072, 1076, 1088, 1077, 1089>>)>>>>), Rep(0, -1, <<In({58} \cup Space)>>), Group(1, <<Rep(10, 100, <<NotIn({10})>>)>>)>>

\* app/hybrid_bert_model.py:159-159  HybridBERTExtractor.extract_with_regex
\*   r"\bИНН[:\s]*(\d{10}|\d{12})\b"
hybrid_inn_re ==
    <<At("boundary"), Str(<<1048, 1053, 1053>>), Rep(0, -1, <<In({58} \cup Space)>>), Group(1, <<Branch(<<<<Rep(10, 10, <<In(Digit)>>)>>, <<Rep(12, 12, <<In(Digit)>>)>>>>)>>), At("boundary")>>

\* app/hybrid_bert_model.py:164-167  HybridBERTExtractor.extract_with_regex
\*   r"\b(\d{2}[.]\d{2}[.]\d{4})\b"
\*   r"\b(\d{2}[.]\d{2}[.]\d{2})\b"
hybrid_date_patterns == <<
    <<At("boundary"), Group(1, <<Rep(2, 2, <<In(Digit)>>), Str(<<46>>), Rep(2, 2, <<In(Digit)>>), Str(<<46>>), Rep(4, 4, <<In(Digit)>>)>>), At("boundary")>>,
    <<At("boundary"), Group(1, <<Rep(2, 2, <<In(Digit)>>), Str(<<46>>), Rep(2, 2, <<In(Digit)>>), Str(<<46>>), Rep(2, 2, <<In(Digit)>>)>>), At("boundary")>>
>>

\* app/hybrid_bert_model.py:175-175  HybridBERTExtractor.extract_with_regex
\*   r"\b(\d{2}:\d{2}:\d{2})\b"
hybrid_time_re ==
    <<At("boundary"), Group(1, <<Rep(2, 2, <<In(Digit)>>), Str(<<58>>), Rep(2, 2, <<In(Digit)>>), Str(<<58>>), Rep(2, 2, <<In(Digit)>>)>>), At("boundary")>>

\* app/hybrid_bert_model.py:178-179  HybridBERTExtractor.extract_with_regex
\*   r"\b(\d{2}:\d{2})\b"
hybrid_time_short_re ==
    <<At("boundary"), Group(1, <<Rep(2, 2, <<In(Digit)>>), Str(<<58>>), Rep(2, 2, <<In(Digit)>>)>>), At("boundary")>>

\* app/hybrid_bert_model.py:183-196  HybridBERTExtractor.extract_with_regex
\*   r"(?:ИТОГО?|СУММА|TOTAL|ВСЕГО|Итого?|К оплате|Всего к оплате|Сумма заказа)[:\s=]*((?:\d{1,3}[\s]\d{3}[\s]\d{3}|[\d\s]{1,15})[.,]\d{2})\s*(?:₽|руб|RUB|Р|P)?"
\*   r"(?:ИТОГО?|СУММА|TOTAL|ВСЕГО|Итого?|Сумма заказа)[:\s=]*((?:\d{1,3}[\s,])*\d+[.,]\d{2})\s*(?:₽|руб|RUB|Р|P)?"
\*   r"(?:Электронный\s+платеж|Оплата)[:\s]*((?:\d{1,3}[\s,])*\d+[.,]\d{2})"
\*   r"(?:Сумма в валюте карты|Сумма операции|К оплате)[:\s]*((?:\d{1,3}[\s,])*\d+[.,]\d{2})"
\*   r"(?:^|\n)\s*((?:\d{1,3}[\s,])*\d+[.,]\d{2})\s*(?:RUB|руб|₽|Р)\s*(?:\n|$)"
\*   r"((?:\d{1,3}[\s,])+\d{2,}[.,]\d{2})\s*(?:₽|руб|RUB)"
\*   r"(?:ИТОГО?|СУММА|ВСЕГО|Итого?|К оплате|Всего к оплате|Сумма заказа)[:\s=]*((?:\d{1,3}[\s]\d{3}|\d{2,6}))\s*(?:₽|руб|RUB|Р|P|i)?"
hybrid_total_patterns == <<
    <<Branch(<<<<Str(<<1048, 1058, 1054, 1043>>), Rep(0, 1, <<Str(<<1054>>)>>)>>, <<Str(<<1057, 1059, 1052, 1052, 1040>>)>>, <<Str(<<84, 79, 84, 65, 76>>)>>, <<Str(<<1042, 1057, 1045, 1043, 1054>>)>>, <<Str(<<1048, 1090, 1086, 1075>>), Rep(0, 1, <<Str(<<1086>>)>>)>>, <<Str(<<1050, 32, 1086, 1087, 1083, 1072, 1090, 1077>>)>>, <<Str(<<1042, 1089, 1077, 1075, 1086, 32, 1082, 32, 1086, 1087, 1083, 1072, 1090, 1077>>)>>, <<Str(<<1057, 1091, 1084, 1084, 1072, 32, 1079, 1072, 1082, 1072, 1079, 1072>>)>>>>), Rep(0, -1, <<In({58, 61} \cup Space)>>), Group(1, <<Branch(<<<<Rep(1, 3, <<In(Digit)>>), In(Space), Rep(3, 3, <<In(Digit)>>), In(Space), Rep(3, 3, <<In(Digit)>>)>>, <<Rep(1, 15, <<In(Digit \cup Space)>>)>>>>), In({46, 44}), Rep(2, 2, <<In(Digit)>>)>>), Rep(0, -1, <<In(Space)>>), Rep(0, 1, <<Branch(<<<<Str(<<8381>>)>>, <<Str(<<1088, 1091, 1073>>)>>, <<Str(<<82, 85, 66>>)>>, <<Str(<<1056>>)>>, <<Str(<<80>>)>>>>)>>)>>,
    <<Branch(<<<<Str(<<1048, 1058, 1054, 1043>>), Rep(0, 1, <<Str(<<1054>>)>>)>>, <<Str(<<1057, 1059, 1052, 1052, 1040>>)>>, <<Str(<<84, 79, 84, 65, 76>>)>>, <<Str(<<1042, 1057, 1045, 1043, 1054>>)>>, <<Str(<<1048, 1090, 1086, 1075>>), Rep(0, 1, <<Str(<<1086>>)>>)>>, <<Str(<<1057, 1091, 1084, 1084, 1072, 32, 1079, 1072, 1082, 1072, 1079, 1072>>)>>>>), Rep(0, -1, <<In({58, 61} \cup Space)>>), Group(1, <<Rep(0, -1, <<Rep(1, 3, <<In(Digit)>>), In({44} \cup Space)>>), Rep(1, -1, <<In(Digit)>>), In({46, 44}), Rep(2, 2, <<In(Digit)>>)>>), Rep(0, -1, <<In(Space)>>), Rep(0, 1, <<Branch(<<<<Str(<<8381>>)>>, <<Str(<<1088, 1091, 1073>>)>>, <<Str(<<82, 85, 66>>)>>, <<Str(<<1056>>)>>, <<Str(<<80>>)>>>>)>>)>>,
    <<Branch(<<<<Str(<<1069, 1083, 1077, 1082, 1090, 1088, 1086, 1085, 1085, 1099, 1081>>), Rep(1, -1, <<In(Space)>>), Str(<<1087, 1083, 1072, 1090, 1077, 1078>>)>>, <<Str(<<1054, 1087, 1083, 1072, 1090, 1072>>)>>>>), Rep(0, -1, <<In({58} \cup Space)>>), Group(1, <<Rep(0, -1, <<Rep(1, 3, <<In(Digit)>>), In({44} \cup Space)>>), Rep(1, -1, <<In(Digit)>>), In({46, 44}), Rep(2, 2, <<In(Digit)>>)>>)>>,
    <<Branch(<<<<Str(<<1057, 1091, 1084, 1084, 1072, 32, 1074, 32, 1074, 1072, 1083, 1102, 1090, 1077, 32, 1082, 1072, 1088, 1090, 1099>>)>>, <<Str(<<1057, 1091, 1084, 1084, 1072, 32, 1086, 1087, 1077, 1088, 1072, 1094, 1080, 1080>>)>>, <<Str(<<1050, 32, 1086, 1087, 1083, 1072, 1090, 1077>>)>>>>), Rep(0, -1, <<In({58} \cup Space)>>), Group(1, <<Rep(0, -1, <<Rep(1, 3, <<In(Digit)>>), In({44} \cup Space)>>), Rep(1, -1, <<In(Digit)>>), In({46, 44}), Rep(2, 2, <<In(Digit)>>)>>)>>,
    <<Branch(<<<<At("begin")>>, <<Str(<<10>>)>>>>), Rep(0, -1, <<In(Space)>>), Group(1, <<Rep(0, -1, <<Rep(1, 3, <<In(Digit)>>), In({44} \cup Space)>>), Rep(1, -1, <<In(Digit)>>), In({46, 44}), Rep(2, 2, <<In(Digit)>>)>>), Rep(0, -1, <<In(Space)>>), Branch(<<<<Str(<<82, 85, 66>>)>>, <<Str(<<1088, 1091, 1073>>)>>, <<Str(<<8381>>)>>, <<Str(<<1056>>)>>>>), Rep(0, -1, <<In(Space)>>), Branch(<<<<Str(<<10>>)>>, <<At("end")>>>>)>>,
    <<Group(1, <<Rep(1, -1, <<Rep(1, 3, <<In(Digit)>>), In({44} \cup Space)>>), Rep(2, -1, <<In(Digit)>>), In({46, 44}), Rep(2, 2, <<In(Digit)>>)>>), Rep(0, -1, <<In(Space)>>), Branch(<<<<Str(<<8381>>)>>, <<Str(<<1088, 1091, 1073>>)>>, <<Str(<<82, 85, 66>>)>>>>)>>,
    <<Branch(<<<<Str(<<1048, 1058, 1054, 1043>>), Rep(0, 1, <<Str(<<1054>>)>>)>>, <<Str(<<1057, 1059, 1052, 1052, 1040>>)>>, <<Str(<<1042, 1057, 1045, 1043, 1054>>)>>, <<Str(<<1048, 1090, 1086, 1075>>), Rep(0, 1, <<Str(<<1086>>)>>)>>, <<Str(<<1050, 32, 1086, 1087, 1083, 1072, 1090, 1077>>)>>, <<Str(<<1042, 1089, 1077, 1075, 1086, 32, 1082, 32, 1086, 1087, 1083, 1072, 1090, 1077>>)>>, <<Str(<<1057, 1091, 1084, 1084, 1072, 32, 1079, 1072, 1082, 1072, 1079, 1072>>)>>>>), Rep(0, -1, <<In({58, 61} \cup Space)>>), Group(1, <<Branch(<<<<Rep(1, 3, <<In(Digit)>>), In(Space), Rep(3, 3, <<In(Digit)>>)>>, <<Rep(2, 6, <<In(Digit)>>)>>>>)>>), Rep(0, -1, <<In(Space)>>), Rep(0, 1, <<Branch(<<<<Str(<<8381>>)>>, <<Str(<<1088, 1091, 1073>>)>>, <<Str(<<82, 85, 66>>)>>, <<Str(<<1056>>)>>, <<Str(<<80>>)>>, <<Str(<<105>>)>>>>)>>)>>
>>

\* app/hybrid_bert_model.py:213-213  HybridBERTExtractor.extract_with_regex
\*   r"\b[A-Za-z0-9._%+-]+@[A-Za-z0-9.-]+\.[A-Z|a-z]{2,}\b"
hybrid_email_re ==
    <<At("boundary"), Rep(1, -1, <<In({46, 95, 37, 43, 45} \cup (65..90) \cup (97..122) \cup (48..57))>>), Str(<<64>>), Rep(1, -1, <<In({46, 45} \cup (65..90) \cup (97..122) \cup (48..57))>>), Str(<<46>>), Rep(2, -1, <<In({124} \cup (65..90) \cup (97..122))>>), At("boundary")>>

\* app/hybrid_bert_model.py:218-218  HybridBERTExtractor.extract_with_regex
\*   r"\+?[78][\s-]?\(?\d{3}\)?[\s-]?\d{3}[\s-]?\d{2}[\s-]?\d{2}"
hybrid_phone_re ==
    <<Rep(0, 1, <<Str(<<43>>)>>), In({55, 56}), Rep(0, 1, <<In({45} \cup Space)>>), Rep(0, 1, <<Str(<<40>>)>>), Rep(3, 3, <<In(Digit)>>), Rep(0, 1, <<Str(<<41>>)>>), Rep(0, 1, <<In({45} \cup Space)>>), Rep(3, 3, <<In(Digit)>>), Rep(0, 1, <<In({45} \cup Space)>>), Rep(2, 2, <<In(Digit)>>), Rep(0, 1, <<In({45} \cup Space)>>), Rep(2, 2, <<In(Digit)>>)>>

\* app/hybrid_bert_model.py:223-225  HybridBERTExtractor.extract_with_regex
\*   r"((?:ООО|ИП|ПАО|АО|ЗАО)\s+["\"]?[А-ЯЁа-яё\s\-]{3,50}["\"]?)"
hybrid_vendor_patterns == <<
    <<Group(1, <<Branch(<<<<Str(<<1054, 1054, 1054>>)>>, <<Str(<<1048, 1055>>)>>, <<Str(<<1055, 1040, 1054>>)>>, <<Str(<<1040, 1054>>)>>, <<Str(<<1047, 1040, 1054>>)>>>>), Rep(1, -1, <<In(Space)>>), Rep(0, 1, <<Str(<<34>>)>>), Rep(3, 50, <<In({1025, 1105, 45} \cup (1040..1071) \cup (1072..1103) \cup Space)>>), Rep(0, 1, <<Str(<<34>>)>>)>>)>>
>>

\* app/hybrid_bert_model.py:235-238  HybridBERTExtractor.extract_with_regex
\*   r"ФНС[:\s]+([a-z0-9\-\.]+\.[a-z]{2,})"
\*   r"((?:ofd|nalog|taxcom|platformaofd)\.[a-z]{2,})"
hybrid_ofd_patterns == <<
    <<Str(<<1060, 1053, 1057>>), Rep(1, -1, <<In({58} \cup Space)>>), Group(1, <<Rep(1, -1, <<In({45, 46} \cup (97..122) \cup (48..57))>>), Str(<<46>>), Rep(2, -1, <<In((97..122))>>)>>)>>,
    <<Group(1, <<Branch(<<<<Str(<<111, 102, 100>>)>>, <<Str(<<110, 97, 108, 111, 103>>)>>, <<Str(<<116, 97, 120, 99, 111, 109>>)>>, <<Str(<<112, 108, 97, 116, 102, 111, 114, 109, 97, 111, 102, 100>>)>>>>), Str(<<46>>), Rep(2, -1, <<In((97..122))>>)>>)>>
>>

\* app/hybrid_bert_model.py:265-272  HybridBERTExtractor.extract_key_value_pairs
\*   r"((?:ФН|ФД|ФПД|РН ККТ|БИК|КПП))[:\s№]+(\d+)"
\*   r"(Кассовый\s+чек)\s+№\s*(\d+)"
\*   r"((?:СМЕНА|ЧЕК|КАССИР|АДРЕС|МЕСТО|САЙТ|СНО))[:\s№]+([^\n]{3,60}?)(?:\n|$)"
hybrid_pair_patterns == <<
    <<Group(1, <<Branch(<<<<Str(<<1060, 1053>>)>>, <<Str(<<1060, 1044>>)>>, <<Str(<<1060, 1055, 1044>>)>>, <<Str(<<1056, 1053, 32, 1050, 1050, 1058>>)>>, <<Str(<<1041, 1048, 1050>>)>>, <<Str(<<1050, 1055, 1055>>)>>>>)>>), Rep(1, -1, <<In({58, 8470} \cup Space)>>), Group(2, <<Rep(1, -1, <<In(Digit)>>)>>)>>,
    <<Group(1, <<Str(<<1050, 1072, 1089, 1089, 1086, 1074, 1099, 1081>>), Rep(1, -1, <<In(Space)>>), Str(<<1095, 1077, 1082>>)>>), Rep(1, -1, <<In(Space)>>), Str(<<8470>>), Rep(0, -1, <<In(Space)>>), Group(2, <<Rep(1, -1, <<In(Digit)>>)>>)>>,
    <<Group(1, <<Branch(<<<<Str(<<1057, 1052, 1045, 1053, 1040>>)>>, <<Str(<<1063, 1045, 1050>>)>>, <<Str(<<1050, 1040, 1057, 1057, 1048, 1056>>)>>, <<Str(<<1040, 1044, 1056, 1045, 1057>>)>>, <<Str(<<1052, 1045, 1057, 1058, 1054>>)>>, <<Str(<<1057, 1040, 1049, 1058>>)>>, <<Str(<<1057, 1053, 1054>>)>>>>)>>), Rep(1, -1, <<In({58, 8470} \cup Space)>>), Group(2, <<Lazy(3, 60, <<NotIn({10})>>)>>), Branch(<<<<Str(<<10>>)>>, <<At("end")>>>>)>>
>>

\* app/ml_model.py:23-27  InvoiceDataExtractor.__init__
\*   r"ИНН[:\s]*(\d{10,12})"
\*   r"инн[:\s]*(\d{10,12})"
\*   r"ИНН\s*:\s*(\d{10,12})"
patterns_inn == <<
    <<Str(<<1048, 1053, 1053>>), Rep(0, -1, <<In({58} \cup Space)>>), Group(1, <<Rep(10, 12, <<In(Digit)>>)>>)>>,
    <<Str(<<1080, 1085, 1085>>), Rep(0, -1, <<In({58} \cup Space)>>), Group(1, <<Rep(10, 12, <<In(Digit)>>)>>)>>,
    <<Str(<<1048, 1053, 1053>>), Rep(0, -1, <<In(Space)>>), Str(<<58>>), Rep(0, -1, <<In(Space)>>), Group(1, <<Rep(10, 12, <<In(Digit)>>)>>)>>
>>

\* app/ml_model.py:28-33  InvoiceDataExtractor.__init__
\*   r"(ООО\s+[\"«]?[^\"»\n]{3,50}[\"»]?)"
\*   r"(АО\s+[\"«]?[^\"»\n]{3,50}[\"»]?)"
\*   r"(ИП\s+[А-ЯЁ][а-яё]+\s+[А-ЯЁ][а-яё]+\s+[А-ЯЁ][а-яё]+)"
\*   r"([А-ЯЁ][А-ЯЁ\s]{10,50}(?:ООО|АО|ИП))"
patterns_vendor == <<
    <<Group(1, <<Str(<<1054, 1054, 1054>>), Rep(1, -1, <<In(Space)>>), Rep(0, 1, <<In({34, 171})>>), Rep(3, 50, <<NotIn({34, 187, 10})>>), Rep(0, 1, <<In({34, 187})>>)>>)>>,
    <<Group(1, <<Str(<<1040, 1054>>), Rep(1, -1, <<In(Space)>>), Rep(0, 1, <<In({34, 171})>>), Rep(3, 50, <<NotIn({34, 187, 10})>>), Rep(0, 1, <<In({34, 187})>>)>>)>>,
    <<Group(1, <<Str(<<1048, 1055>>), Rep(1, -1, <<In(Space)>>), In({1025} \cup (1040..1071)), Rep(1, -1, <<In({1105} \cup (1072..1103))>>), Rep(1, -1, <<In(Space)>>), In({1025} \cup (1040..1071)), Rep(1, -1, <<In({1105} \cup (1072..1103))>>), Rep(1, -1, <<In(Space)>>), In({1025} \cup (1040..1071)), Rep(1, -1, <<In({1105} \cup (1072..1103))>>)>>)>>,
    <<Group(1, <<In({1025} \cup (1040..1071)), Rep(10, 50, <<In({1025} \cup (1040..1071) \cup Space)>>), Branch(<<<<Str(<<1054, 1054, 1054>>)>>, <<Str(<<1040, 1054>>)>>, <<Str(<<1048, 1055>>)>>>>)>>)>>
>>

\* app/ml_model.py:34-40  InvoiceDataExtractor.__init__
\*   r"(\d{2}\.\d{2}\.\d{4})"
\*   r"(\d{2}/\d{2}/\d{4})"
\*   r"(\d{2}\.\d{2}\.\d{2})"
\*   r"(\d{1,2}\s+(?:января|февраля|марта|апреля|мая|июня|июля|августа|сентября|октября|ноября|декабря)\s+\d{4})"
\*   r"(\d{1,2}\s+(?:янв|фев|мар|апр|мая|июн|июл|авг|сен|окт|ноя|дек)\s+\d{4})"
patterns_date == <<
    <<Group(1, <<Rep(2, 2, <<In(Digit)>>), Str(<<46>>), Rep(2, 2, <<In(Digit)>>), Str(<<46>>), Rep(4, 4, <<In(Digit)>>)>>)>>,
    <<Group(1, <<Rep(2, 2, <<In(Digit)>>), Str(<<47>>), Rep(2, 2, <<In(Digit)>>), Str(<<47>>), Rep(4, 4, <<In(Digit)>>)>>)>>,
    <<Group(1, <<Rep(2, 2, <<In(Digit)>>), Str(<<46>>), Rep(2, 2, <<In(Digit)>>), Str(<<46>>), Rep(2, 2, <<In(Digit)>>)>>)>>,
    <<Group(1, <<Rep(1, 2, <<In(Digit)>>), Rep(1, -1, <<In(Space)>>), Branch(<<<<Str(<<1103, 1085, 1074, 1072, 1088, 1103>>)>>, <<Str(<<1092, 1077, 1074, 1088, 1072, 1083, 1103>>)>>, <<Str(<<1084, 1072, 1088, 1090, 1072>>)>>, <<Str(<<1072, 1087, 1088, 1077, 1083, 1103>>)>>, <<Str(<<1084, 1072, 1103>>)>>, <<Str(<<1080, 1102, 1085, 1103>>)>>, <<Str(<<1080, 1102, 1083, 1103>>)>>, <<Str(<<1072, 1074, 1075, 1091, 1089, 1090, 1072>>)>>, <<Str(<<1089, 1077, 1085, 1090, 1103, 1073, 1088, 1103>>)>>, <<Str(<<1086, 1082, 1090, 1103, 1073, 1088, 1103>>)>>, <<Str(<<1085, 1086, 1103, 1073, 1088, 1103>>)>>, <<Str(<<1076, 1077, 1082, 1072, 1073, 1088, 1103>>)>>>>), Rep(1, -1, <<In(Space)>>), Rep(4, 4, <<In(Digit)>>)>>)>>,
    <<Group(1, <<Rep(1, 2, <<In(Digit)>>), Rep(1, -1, <<In(Space)>>), Branch(<<<<Str(<<1103, 1085, 1074>>)>>, <<Str(<<1092, 1077, 1074>>)>>, <<Str(<<1084, 1072, 1088>>)>>, <<Str(<<1072, 1087, 1088>>)>>, <<Str(<<1084, 1072, 1103>>)>>, <<Str(<<1080, 1102, 1085>>)>>, <<Str(<<1080, 1102, 1083>>)>>, <<Str(<<1072, 1074, 1075>>)>>, <<Str(<<1089, 1077, 1085>>)>>, <<Str(<<1086, 1082, 1090>>)>>, <<Str(<<1085, 1086, 1103>>)>>, <<Str(<<1076, 1077, 1082>>)>>>>), Rep(1, -1, <<In(Space)>>), Rep(4, 4, <<In(Digit)>>)>>)>>
>>

\* app/ml_model.py:41-45  InvoiceDataExtractor.__init__
\*   r"(?:Итого|ИТОГО|Всего|ВСЕГО|К оплате|Сумма)[:\s=]*([\d\s]+[.,]\d{2})"
\*   r"(?:итог|total)[:\s=]*([\d\s]+[.,]\d{2})"
\*   r"(?:СУММА|Сумма)[:\s]*([\d\s]+[.,]\d{2})"
patterns_total == <<
    <<Branch(<<<<Str(<<1048, 1090, 1086, 1075, 1086>>)>>, <<Str(<<1048, 1058, 1054, 1043, 1054>>)>>, <<Str(<<1042, 1089, 1077, 1075, 1086>>)>>, <<Str(<<1042, 1057, 1045, 1043, 1054>>)>>, <<Str(<<1050, 32, 1086, 1087, 1083, 1072, 1090, 1077>>)>>, <<Str(<<1057, 1091, 1084, 1084, 1072>>)>>>>), Rep(0, -1, <<In({58, 61} \cup Space)>>), Group(1, <<Rep(1, -1, <<In(Digit \cup Space)>>), In({46, 44}), Rep(2, 2, <<In(Digit)>>)>>)>>,
    <<Branch(<<<<Str(<<1080, 1090, 1086, 1075>>)>>, <<Str(<<116, 111, 116, 97, 108>>)>>>>), Rep(0, -1, <<In({58, 61} \cup Space)>>), Group(1, <<Rep(1, -1, <<In(Digit \cup Space)>>), In({46, 44}), Rep(2, 2, <<In(Digit)>>)>>)>>,
    <<Str(<<1057>>), Branch(<<<<Str(<<1059, 1052, 1052, 1040>>)>>, <<Str(<<1091, 1084, 1084, 1072>>)>>>>), Rep(0, -1, <<In({58} \cup Space)>>), Group(1, <<Rep(1, -1, <<In(Digit \cup Space)>>), In({46, 44}), Rep(2, 2, <<In(Digit)>>)>>)>>
>>

\* app/ml_model.py:122-125  InvoiceDataExtractor.predict
\*   r"[\+]?[7-8][\s-]?\(?(\d{3})\)?[\s-]?(\d{3})[\s-]?(\d{2})[\s-]?(\d{2})"
ml_phone_re ==
    <<Rep(0, 1, <<Str(<<43>>)>>), In((55..56)), Rep(0, 1, <<In({45} \cup Space)>>), Rep(0, 1, <<Str(<<40>>)>>), Group(1, <<Rep(3, 3, <<In(Digit)>>)>>), Rep(0, 1, <<Str(<<41>>)>>), Rep(0, 1, <<In({45} \cup Space)>>), Group(2, <<Rep(3, 3, <<In(Digit)>>)>>), Rep(0, 1, <<In({45} \cup Space)>>), Group(3, <<Rep(2, 2, <<In(Digit)>>)>>), Rep(0, 1, <<In({45} \cup Space)>>), Group(4, <<Rep(2, 2, <<In(Digit)>>)>>)>>

\* app/ml_model.py:129-132  InvoiceDataExtractor.predict
\*   r"([a-zA-Z0-9._%+-]+@[a-zA-Z0-9.-]+\.[a-zA-Z]{2,})"
ml_email_re ==
    <<Group(1, <<Rep(1, -1, <<In({46, 95, 37, 43, 45} \cup (97..122) \cup (65..90) \cup (48..57))>>), Str(<<64>>), Rep(1, -1, <<In({46, 45} \cup (97..122) \cup (65..90) \cup (48..57))>>), Str(<<46>>), Rep(2, -1, <<In((97..122) \cup (65..90))>>)>>)>>

(***************************************************************************)
(* Python str operations used by the extractors.                           *)
(***************************************************************************)
RECURSIVE lstrip(_)
lstrip(s) == IF s # <<>> /\ Head(s) \in Space THEN lstrip(Tail(s)) ELSE s

RECURSIVE rstrip(_)
rstrip(s) == IF s # <<>> /\ s[Len(s)] \in Space THEN rstrip(SubSeq(s, 1, Len(s) - 1)) ELSE s

\* str.strip()
strip(s) == rstrip(lstrip(s))

\* str.replace(c, r) for a one-character c and an r of at most one character
replace(s, c, r) ==
    IF r = <<>> THEN SelectSeq(s, LAMBDA x : x # c)
    ELSE [j \in 1..Len(s) |-> IF s[j] = c THEN r[1] ELSE s[j]]

DigitVal(c) == IF c \in AsciiDigit THEN c - 48 ELSE c - 1632

RECURSIVE DigitsVal(_, _)
DigitsVal(s, acc) == IF s = <<>> THEN acc ELSE DigitsVal(Tail(s), acc * 10 + DigitVal(Head(s)))

RECURSIVE IndexOf(_, _, _)
IndexOf(s, c, i) == IF i > Len(s) THEN 0 ELSE IF s[i] = c THEN i ELSE IndexOf(s, c, i + 1)

AllDigits(s) == \A j \in 1..Len(s) : s[j] \in Digit

(***************************************************************************)
(* float(s) on the strings the extractors hand it (digits, white space and *)
(* points): white space around the number is ignored, white space inside   *)
(* it, a second point or no digit at all raise ValueError.  The value is   *)
(* kept in hundredths; every amount pattern ends in [.,]\d{2} or in a      *)
(* digit run, so no captured amount has a third decimal.                   *)
(***************************************************************************)
\* the number with integer digits ip and fraction digits fp
FloatOfParts(ip, fp) ==
    IF AllDigits(ip) /\ AllDigits(fp) /\ Len(ip) + Len(fp) > 0 /\ Len(fp) <= 2
    THEN [ok |-> TRUE, val |-> DigitsVal(ip, 0) * 100 + DigitsVal(SubSeq(fp \o <<48, 48>>, 1, 2), 0)]
    ELSE [ok |-> FALSE, val |-> 0]

\* the trimmed string t split at its first point, at position dot (0: none)
FloatSplitAt(t, dot) ==
    IF dot = 0 THEN FloatOfParts(t, <<>>)
    ELSE FloatOfParts(SubSeq(t, 1, dot - 1), SubSeq(t, dot + 1, Len(t)))

FloatOfTrimmed(t) == FloatSplitAt(t, IndexOf(t, 46, 1))

float(s) == FloatOfTrimmed(strip(s))

(***************************************************************************)
(* Values and dicts.                                                       *)
(***************************************************************************)
StrV(s) == [ty |-> "str", v |-> s]
FloatV(h) == [ty |-> "float", v |-> <<h>>]
DictV(items) == [ty |-> "dict", v |-> items]

\* "UNRECOGNIZED"
UNRECOGNIZED == StrV(<<85, 78, 82, 69, 67, 79, 71, 78, 73, 90, 69, 68>>)

EmptyDict == [k \in {} |-> UNRECOGNIZED]

\* d[key] = value
Put(d, key, value) == [k \in DOMAIN d \cup {key} |-> IF k = key THEN value ELSE d[k]]

\* del d[key]
Del(d, key) == [k \in DOMAIN d \ {key} |-> d[k]]

\* the first pattern of a cascade that matches (for ... re.search ... break)
RECURSIVE FirstMatch(_, _, _, _)
FirstMatch(patterns, text, ic, j) ==
    IF j > Len(patterns) THEN Fail
    ELSE OrElse(search(patterns[j], text, ic), FirstMatch(patterns, text, ic, j + 1))

(***************************************************************************)
(* processor.process_with_regex: the regex fallback of the API.            *)
(***************************************************************************)
\* match.group(n) as a value, trimmed where the code calls .strip()
GroupValue(text, m, n, stripped) ==
    IF stripped THEN StrV(strip(group(text, m, n))) ELSE StrV(group(text, m, n))

\* data[key] = the group when the pattern matched, "UNRECOGNIZED" when not
GroupOrSentinel(text, m, stripped) ==
    IF m.ok THEN GroupValue(text, m, 1, stripped) ELSE UNRECOGNIZED

\* float(amount_str), or the string itself when float raises ValueError
AmountValue(amount_str) ==
    IF float(amount_str).ok THEN FloatV(float(amount_str).val) ELSE StrV(amount_str)

TotalOrSentinel(text, m) ==
    IF m.ok THEN AmountValue(replace(replace(group(text, m, 1), 32, <<>>), 44, <<46>>))
    ELSE UNRECOGNIZED

\* d[key] = the group, only when the pattern matched
PutGroup(d, key, text, m, n, stripped) ==
    IF m.ok THEN Put(d, key, GroupValue(text, m, n, stripped)) ELSE d

\* d["phone"] = f"+7{group(1)}{group(2)}{group(3)}{group(4)}", only when matched
PutPhone(d, text, m) ==
    IF m.ok
    THEN Put(d, "phone", StrV(<<43, 55>> \o group(text, m, 1) \o group(text, m, 2)
                              \o group(text, m, 3) \o group(text, m, 4)))
    ELSE d

process_with_regex(raw_text) ==
    LET d1 == Put(EmptyDict, "inn",
                  GroupOrSentinel(raw_text, search(processor_inn_re, raw_text, TRUE), FALSE))
        d2 == Put(d1, "vendor",
                  GroupOrSentinel(raw_text, FirstMatch(processor_vendor_patterns, raw_text, FALSE, 1), TRUE))
        d3 == Put(d2, "invoice_number",
                  GroupOrSentinel(raw_text, FirstMatch(processor_invoice_patterns, raw_text, TRUE, 1), FALSE))
        d4 == Put(d3, "date",
                  GroupOrSentinel(raw_text, FirstMatch(processor_date_patterns, raw_text, TRUE, 1), FALSE))
        d5 == Put(d4, "total",
                  TotalOrSentinel(raw_text, FirstMatch(processor_total_patterns, raw_text, TRUE, 1)))
        d6 == PutPhone(d5, raw_text, search(processor_phone_re, raw_text, FALSE))
        d7 == PutGroup(d6, "email", raw_text, search(processor_email_re, raw_text, FALSE), 1, FALSE)
        d8 == PutGroup(d7, "address", raw_text, search(processor_address_re, raw_text, TRUE), 1, TRUE)
    IN  d8

(***************************************************************************)
(* More str operations (hybrid extractor, trainer).                        *)
(***************************************************************************)
lower(s) == [j \in 1..Len(s) |-> Lower(s[j])]
upper(s) == [j \in 1..Len(s) |-> Upper(s[j])]

\* needle in hay
Contains(hay, needle) ==
    \E i \in 1..(Len(hay) - Len(needle) + 1) : SubSeq(hay, i, i + Len(needle) - 1) = needle

\* re.sub(r'\s+', ' ', s)
RECURSIVE CollapseSpace(_)
CollapseSpace(s) ==
    IF s = <<>> THEN <<>>
    ELSE IF Head(s) \in Space THEN <<32>> \o CollapseSpace(lstrip(s))
    ELSE <<Head(s)>> \o CollapseSpace(Tail(s))

\* s.count(c)
count(s, c) == Cardinality({j \in 1..Len(s) : s[j] = c})

\* s.split()[-1] for an s that holds a word
RECURSIVE LastWordFrom(_, _)
LastWordFrom(s, i) == IF i >= 1 /\ s[i] \notin Space THEN LastWordFrom(s, i - 1) ELSE SubSeq(s, i + 1, Len(s))

LastWord(s) == LET t == rstrip(s) IN LastWordFrom(t, Len(t))

\* a < b for str (code point order)
RECURSIVE StrLess(_, _)
StrLess(a, b) ==
    IF b = <<>> THEN FALSE
    ELSE IF a = <<>> THEN TRUE
    ELSE IF Head(a) # Head(b) THEN Head(a) < Head(b)
    ELSE StrLess(Tail(a), Tail(b))

(***************************************************************************)
(* hybrid_bert_model.HybridBERTExtractor.extract_with_regex                *)
(***************************************************************************)
\* the (num_val, value) pairs one total pattern contributes, in text order
RECURSIVE TotalsOfMatches(_, _, _)
TotalsOfMatches(text, ms, j) ==
    IF j > Len(ms) THEN <<>>
    ELSE LET value == replace(replace(group(text, ms[j], 1), 44, <<46>>), 32, <<>>)
             num_val == float(value)
         IN  (IF num_val.ok /\ num_val.val > 50 * 100 THEN <<[num |-> num_val.val, value |-> value]>>
              ELSE <<>>) \o TotalsOfMatches(text, ms, j + 1)

RECURSIVE AllTotals(_, _)
AllTotals(text, j) ==
    IF j > Len(hybrid_total_patterns) THEN <<>>
    ELSE TotalsOfMatches(text, finditer(hybrid_total_patterns[j], text, TRUE), 1)
         \o AllTotals(text, j + 1)

\* tuple order of (num_val, value)
TotalLess(a, b) == a.num < b.num \/ (a.num = b.num /\ StrLess(a.value, b.value))

\* all_totals.sort(reverse=True); all_totals[0]
RECURSIVE MaxTotal(_, _, _)
MaxTotal(ts, j, best) ==
    IF j > Len(ts) THEN best
    ELSE MaxTotal(ts, j + 1, IF TotalLess(best, ts[j]) THEN ts[j] ELSE best)

\* the vendor a match gives: group(1), trimmed and without double quotes
MatchedVendor(text, match) ==
    IF match.ok
    THEN [ok |-> TRUE,
          vendor |-> strip(replace(replace(strip(group(text, match, 1)), 34, <<>>), 34, <<>>))]
    ELSE [ok |-> FALSE, vendor |-> <<>>]

\* if len(vendor) > 5: take it and break; else go on with the next pattern
LongVendorOr(found, next) == IF found.ok /\ Len(found.vendor) > 5 THEN found ELSE next

\* vendor candidates in cascade order; the first longer than 5 characters wins
RECURSIVE HybridVendor(_, _)
HybridVendor(text, j) ==
    IF j > Len(hybrid_vendor_patterns) THEN [ok |-> FALSE, vendor |-> <<>>]
    ELSE LongVendorOr(MatchedVendor(text, search(hybrid_vendor_patterns[j], text, FALSE)),
                      HybridVendor(text, j + 1))

\* result['total'] = all_totals[0][1] after the descending sort
PutTotal(d, all_totals) ==
    IF all_totals # <<>> THEN Put(d, "total", StrV(MaxTotal(all_totals, 2, all_totals[1]).value))
    ELSE d

PutVendor(d, found) == IF found.ok THEN Put(d, "vendor", StrV(found.vendor)) ELSE d

extract_with_regex(text) ==
    LET r1 == PutGroup(EmptyDict, "inn", text, search(hybrid_inn_re, text, TRUE), 1, FALSE)
        r2 == PutGroup(r1, "date", text, FirstMatch(hybrid_date_patterns, text, FALSE, 1), 1, FALSE)
        r3 == PutGroup(r2, "time", text,
                       OrElse(search(hybrid_time_re, text, FALSE),
                              search(hybrid_time_short_re, text, FALSE)), 1, FALSE)
        r4 == PutTotal(r3, AllTotals(text, 1))
        r5 == PutGroup(r4, "email", text, search(hybrid_email_re, text, FALSE), 0, FALSE)
        r6 == PutGroup(r5, "phone", text, search(hybrid_phone_re, text, FALSE), 0, FALSE)
        r7 == PutVendor(r6, HybridVendor(text, 1))
        r8 == PutGroup(r7, "ofd", text, FirstMatch(hybrid_ofd_patterns, text, TRUE, 1), 1, FALSE)
    IN  r8

(***************************************************************************)
(* hybrid_bert_model.HybridBERTExtractor.extract_key_value_pairs           *)
(***************************************************************************)
\* stop_keys (deny list), upper case
stop_keys == {
    <<1055, 1056, 1048, 1047, 1053, 1040, 1050>>, <<1056, 1040, 1057, 1063, 1045, 1058>>,
    <<1055, 1056, 1045, 1044, 1052, 1045, 1058, 1040>>, <<1051, 1048, 1062, 1045, 1053, 1047, 1048, 1071>>,
    <<1041, 1040, 1053, 1050, 1040>>, <<1056, 1054, 1057, 1057, 1048, 1048>>,
    <<1060, 1045, 1044, 1045, 1056, 1040, 1062, 1048, 1048>>, <<1054, 1050, 1056, 1059, 1043, 1059>>,
    <<1057, 1054, 1054, 1041, 1065, 1040, 1045, 1058>>, <<1041, 1067, 1051, 1040>>,
    <<1057, 1054, 1042, 1045, 1056, 1064, 1045, 1053, 1040>>, <<1055, 1054>>,
    <<1054, 1055, 1045, 1056, 1040, 1062, 1048, 1071>>, <<1050, 1040, 1056, 1058, 1045>>,
    <<1042, 1051, 1040, 1044, 1045, 1051, 1068, 1062, 1045, 1052>>, <<1050, 1054, 1058, 1054, 1056, 1054, 1049>>,
    <<1071, 1042, 1051, 1071, 1045, 1058, 1057, 1071>> }

\* useful_keys (allow list), upper case
useful_keys == {
    <<1060, 1053>>, <<1060, 1044>>, <<1060, 1055, 1044>>, <<1056, 1053, 32, 1050, 1050, 1058>>,
    <<1057, 1052, 1045, 1053, 1040>>, <<1063, 1045, 1050>>, <<1050, 1040, 1057, 1057, 1048, 1056>>,
    <<1040, 1044, 1056, 1045, 1057>>, <<1052, 1045, 1057, 1058, 1054>>, <<1057, 1040, 1049, 1058>>,
    <<1050, 1055, 1055>>, <<1041, 1048, 1050>>, <<1057, 1063, 1045, 1058>>, <<1058, 1054, 1042, 1040, 1056>>,
    <<1059, 1057, 1051, 1059, 1043, 1040>>, <<1057, 1053, 1054>>,
    <<1057, 1048, 1057, 1058, 1045, 1052, 1040, 32, 1053, 1040, 1051, 1054, 1043, 1054, 1054, 1041, 1051, 1054, 1046, 1045, 1053, 1048, 1071>> }

\* ['в', 'по', 'на', 'от', 'для', 'с', 'к']
prepositions == { <<1074>>, <<1087, 1086>>, <<1085, 1072>>, <<1086, 1090>>, <<1076, 1083, 1103>>, <<1089>>, <<1082>> }

\* the filters without the one on the number of spaces
PairKept_prose(key, value) ==
    /\ ~(Len(value) < 2 \/ Len(value) > 100)
    /\ ~(\E stop \in stop_keys : Contains(key, stop))
    /\ lower(LastWord(value)) \notin prepositions
    /\ \E useful \in useful_keys : Contains(key, useful)

\* the filters one structurally matched pair has to pass
PairKept(key, value) ==
    /\ ~(Len(value) < 2 \/ Len(value) > 100)
    /\ ~(\E stop \in stop_keys : Contains(key, stop))
    /\ ~(count(value, 32) > 10)
    /\ lower(LastWord(value)) \notin prepositions
    /\ \E useful \in useful_keys : Contains(key, useful)

\* pairs[key] = value on the insertion-ordered items
PutItem(items, key, value) ==
    IF \E j \in 1..Len(items) : items[j][1] = key
    THEN [j \in 1..Len(items) |-> IF items[j][1] = key THEN <<key, value>> ELSE items[j]]
    ELSE Append(items, <<key, value>>)

RECURSIVE PairsOfMatches(_, _, _, _)
PairsOfMatches(text, ms, j, pairs) ==
    IF j > Len(ms) THEN pairs
    ELSE LET key == CollapseSpace(upper(strip(group(text, ms[j], 1))))
             value == CollapseSpace(strip(group(text, ms[j], 2)))
         IN  PairsOfMatches(text, ms, j + 1,
                            IF PairKept(key, value) THEN PutItem(pairs, key, value) ELSE pairs)

RECURSIVE PairsOfPatterns(_, _, _)
PairsOfPatterns(text, j, pairs) ==
    IF j > Len(hybrid_pair_patterns) THEN pairs
    ELSE PairsOfPatterns(text, j + 1,
                         PairsOfMatches(text, finditer(hybrid_pair_patterns[j], text, TRUE), 1, pairs))

extract_key_value_pairs(text) == DictV(PairsOfPatterns(text, 1, <<>>))

(***************************************************************************)
(* hybrid_bert_model.HybridBERTExtractor.predict.  ml_confidence is what   *)
(* get_ml_confidence returned: EmptyConfidence ({}), or the four scores.   *)
(***************************************************************************)
EmptyConfidence == DictV(<<>>)

\* if ml_confidence: result['ml_confidence'] = ml_confidence
PutConfidence(d, ml_confidence) ==
    IF ml_confidence # EmptyConfidence THEN Put(d, "ml_confidence", ml_confidence) ELSE d

HybridBERTExtractor_predict(text, ml_confidence) ==
    LET result == extract_with_regex(text)
        auto_extracted == extract_key_value_pairs(text)
    IN  PutConfidence(Put(result, "auto_extracted", auto_extracted), ml_confidence)

(***************************************************************************)
(* ml_model.InvoiceDataExtractor: the trainable extractor.  A weight is    *)
(* kept in hundredths (1.0 = 100, the learning rate 0.01 = 1, the floor    *)
(* 0.1 = 10).                                                              *)
(***************************************************************************)
Fields == <<"inn", "vendor", "date", "total">>

\* self.patterns
patterns ==
    [inn |-> patterns_inn, vendor |-> patterns_vendor, date |-> patterns_date, total |-> patterns_total]

\* self.pattern_weights after __init__: [1.0] * len(patterns)
DefaultWeights == [f \in DOMAIN patterns |-> [i \in 1..Len(patterns[f]) |-> 100]]

RECURSIVE GroupsOf(_, _, _)
GroupsOf(text, ms, j) ==
    IF j > Len(ms) THEN <<>> ELSE <<group(text, ms[j], 1)>> \o GroupsOf(text, ms, j + 1)

\* re.findall(pattern, text, re.IGNORECASE) for a pattern with one group
extract_with_pattern(text, pattern) == GroupsOf(text, finditer(pattern, text, TRUE), 1)

\* str(x) of a float kept in hundredths: repr with the shortest fraction
RECURSIVE IntStr(_)
IntStr(n) == IF n < 10 THEN <<48 + n>> ELSE IntStr(n \div 10) \o <<48 + (n % 10)>>

FloatStr(h) ==
    IntStr(h \div 100) \o <<46>> \o
    (IF h % 10 = 0 THEN <<48 + ((h % 100) \div 10)>>
     ELSE <<48 + ((h % 100) \div 10), 48 + (h % 10)>>)

\* str(value)
str(value) == IF value.ty = "float" THEN FloatStr(value.v[1]) ELSE value.v

\* float(clean), or the raw value when float raises
CleanAmount(value, parsed) == IF parsed.ok THEN FloatV(parsed.val) ELSE StrV(value)

_clean_value(value, field) ==
    IF field = "total"
    THEN CleanAmount(value, float(replace(replace(value, 32, <<>>), 44, <<46>>)))
    ELSE IF field = "vendor"
    THEN StrV(replace(replace(replace(strip(value), 171, <<>>), 187, <<>>), 34, <<>>))
    ELSE StrV(strip(value))

\* the matches of pattern i as candidates with the pattern's weight
Weighted(matches, weight, i) ==
    [j \in 1..Len(matches) |-> [value |-> matches[j], weight |-> weight, pattern_idx |-> i]]

\* the candidates collected from the last pattern to the first
RECURSIVE Candidates_backwards(_, _, _, _)
Candidates_backwards(text, field_patterns, field_weights, i) ==
    IF i > Len(field_patterns) THEN <<>>
    ELSE Candidates_backwards(text, field_patterns, field_weights, i + 1)
         \o Weighted(extract_with_pattern(text, field_patterns[i]), field_weights[i], i)

\* the candidates of one field, pattern by pattern, each with its weight;
\* field_patterns = self.patterns[field], field_weights = self.pattern_weights[field]
RECURSIVE Candidates(_, _, _, _)
Candidates(text, field_patterns, field_weights, i) ==
    IF i > Len(field_patterns) THEN <<>>
    ELSE Weighted(extract_with_pattern(text, field_patterns[i]), field_weights[i], i)
         \o Candidates(text, field_patterns, field_weights, i + 1)

\* max() that breaks a tie of weights by whether a call was made before: the
\* last of the greatest weight then, the first otherwise
BestCandidate_unstable(candidates) ==
    LET ties == {j \in 1..Len(candidates) :
                    \A k \in 1..Len(candidates) : candidates[k].weight <= candidates[j].weight}
    IN  IF prediction.made THEN candidates[CHOOSE j \in ties : \A k \in ties : k <= j]
        ELSE candidates[CHOOSE j \in ties : \A k \in ties : j <= k]

\* max() that keeps the last candidate of the greatest weight
BestCandidate_last(candidates) ==
    candidates[CHOOSE j \in 1..Len(candidates) :
                   /\ \A k \in 1..Len(candidates) : candidates[k].weight <= candidates[j].weight
                   /\ \A k \in (j + 1)..Len(candidates) : candidates[k].weight < candidates[j].weight]

\* max(candidates, key=weight): the first candidate of the greatest weight
BestCandidate(candidates) ==
    LET top == CHOOSE j \in 1..Len(candidates) :
                   /\ \A k \in 1..Len(candidates) : candidates[k].weight <= candidates[j].weight
                   /\ \A k \in 1..(j - 1) : candidates[k].weight < candidates[j].weight
    IN  candidates[top]

\* the cleaned value of the best candidate, "UNRECOGNIZED" without candidates
BestValue(candidates, field) ==
    IF candidates = <<>> THEN UNRECOGNIZED
    ELSE _clean_value(BestCandidate(candidates).value, field)

extract_field(text, field, weights) ==
    BestValue(Candidates(text, patterns[field], weights[field], 1), field)

InvoiceDataExtractor_predict(text, weights) ==
    LET r4 == [f \in {"inn", "vendor", "date", "total"} |-> extract_field(text, f, weights)]
        r5 == PutPhone(r4, text, search(ml_phone_re, text, FALSE))
    IN  PutGroup(r5, "email", text, search(ml_email_re, text, FALSE), 1, FALSE)

\* "UNRECOGNIZED" or "" normalise to ""; otherwise lower, strip, drop spaces and quotes
_normalize_for_comparison(s) ==
    IF s = <<>> \/ s = UNRECOGNIZED.v THEN <<>>
    ELSE replace(replace(replace(replace(strip(lower(s)), 32, <<>>), 34, <<>>), 171, <<>>), 187, <<>>)

\* 0.1, the least value a penalty leaves to a weight
WeightFloor == 10

\* a penalty that is not held at the floor
Penalty_unclamped(weight) == weight - 1

\* max(0.1, weight - learning_rate), learning_rate = 0.01
Penalty(weight) == IF weight - 1 < WeightFloor THEN WeightFloor ELSE weight - 1

\* predicted_value in [str(m) for m in matches]
FoundIn(matches, predicted_value) == \E j \in 1..Len(matches) : matches[j] = predicted_value

\* the weights of one field after the update: only the patterns that found
\* the predicted value are rewarded or penalised
UpdatedWeights(field_weights, field_patterns, text, predicted_value, reward) ==
    [i \in 1..Len(field_patterns) |->
        IF ~FoundIn(extract_with_pattern(text, field_patterns[i]), predicted_value)
        THEN field_weights[i]
        ELSE IF reward THEN field_weights[i] + 1
        ELSE Penalty(field_weights[i])]

_update_weights(weights, text, field, predicted_value, reward) ==
    [weights EXCEPT ![field] =
        UpdatedWeights(weights[field], patterns[field], text, predicted_value, reward)]

\* is_correct of train
IsCorrect(predicted, actual) ==
    LET pred_norm == _normalize_for_comparison(predicted)
        actual_norm == _normalize_for_comparison(actual)
    IN  pred_norm = actual_norm \/ Contains(actual_norm, pred_norm) \/ Contains(pred_norm, actual_norm)

(***************************************************************************)
(* The body of train's inner loop for one (text, ground_truth) example:    *)
(* predict once, then for each of the four fields in ground_truth compare  *)
(* and update.  tally = [weights, loss, correct, total].                   *)
(***************************************************************************)
\* one field of one example: count it, reward or penalise its patterns
Tallied(tally, text, field, predicted, is_correct) ==
    [weights |-> _update_weights(tally.weights, text, field, predicted, is_correct),
     loss |-> IF is_correct THEN tally.loss ELSE tally.loss + 1,
     correct |-> IF is_correct THEN tally.correct + 1 ELSE tally.correct,
     total |-> tally.total + 1]

RECURSIVE TrainFields(_, _, _, _, _)
TrainFields(tally, text, ground_truth, predictions, k) ==
    IF k > Len(Fields) THEN tally
    ELSE IF Fields[k] \notin DOMAIN ground_truth
    THEN TrainFields(tally, text, ground_truth, predictions, k + 1)
    ELSE TrainFields(
            Tallied(tally, text, Fields[k], str(predictions[Fields[k]]),
                    IsCorrect(str(predictions[Fields[k]]), ground_truth[Fields[k]])),
            text, ground_truth, predictions, k + 1)

TrainExample(tally, example) ==
    TrainFields(tally, example.text, example.truth,
                InvoiceDataExtractor_predict(example.text, tally.weights), 1)

(***************************************************************************)
(* Documents.  A PDF is what the pipeline can observe of its bytes:        *)
(* whether fitz opens it and, for each page, the text of its text layer,   *)
(* whether the page renders to an image, and what Tesseract makes of the   *)
(* image (a text, or an exception).  The page texts below are the corpus.  *)
(***************************************************************************)
\* "ИНН 2310031475 ИТОГО: 692.88"
T_scenario1 == <<
    1048, 1053, 1053, 32, 50, 51, 49, 48, 48, 51, 49, 52, 55, 53, 32, 1048, 1058, 1054, 1043,
    1054, 58, 32, 54, 57, 50, 46, 56, 56
>>
\* "АО "ТАНДЕР" 27.09.2025"
T_scenario2 == <<1040, 1054, 32, 34, 1058, 1040, 1053, 1044, 1045, 1056, 34, 32, 50, 55, 46, 48, 57, 46, 50, 48, 50, 53>>
\* "ИНН 12345678901"
T_inn11 == <<1048, 1053, 1053, 32, 49, 50, 51, 52, 53, 54, 55, 56, 57, 48, 49>>
\* "ИНН: 231003147512"
T_inn12 == <<1048, 1053, 1053, 58, 32, 50, 51, 49, 48, 48, 51, 49, 52, 55, 53, 49, 50>>
\* "ИНН ١٢٣٤٥٦٧٨٩٠"
T_inn_arabic == <<1048, 1053, 1053, 32, 1633, 1634, 1635, 1636, 1637, 1638, 1639, 1640, 1641, 1632>>
\* "тел 8 (918) 123-45-67"
T_phone8 == <<1090, 1077, 1083, 32, 56, 32, 40, 57, 49, 56, 41, 32, 49, 50, 51, 45, 52, 53, 45, 54, 55>>
\* "+79181234567 касса"
T_phone7 == <<43, 55, 57, 49, 56, 49, 50, 51, 52, 53, 54, 55, 32, 1082, 1072, 1089, 1089, 1072>>
\* "чек"
T_short == <<1095, 1077, 1082>>
\* " 123456789\n"
T_nine == <<32, 49, 50, 51, 52, 53, 54, 55, 56, 57, 10>>
\* "1234567890"
T_ten == <<49, 50, 51, 52, 53, 54, 55, 56, 57, 48>>
\* "   \n\t "
T_blank == <<32, 32, 32, 10, 9, 32>>
\* "просто текст без полей"
T_nofields == <<1087, 1088, 1086, 1089, 1090, 1086, 32, 1090, 1077, 1082, 1089, 1090, 32, 1073, 1077, 1079, 32, 1087, 1086, 1083, 1077, 1081>>
\* "Всего 1\t234,56"
T_total_tab == <<1042, 1089, 1077, 1075, 1086, 32, 49, 9, 50, 51, 52, 44, 53, 54>>
\* "Итого: 150.00\n1999.50 руб"
T_two_totals == <<
    1048, 1090, 1086, 1075, 1086, 58, 32, 49, 53, 48, 46, 48, 48, 10, 49, 57, 57, 57, 46, 53,
    48, 32, 1088, 1091, 1073
>>
\* "ООО «Ромашка» 01/11/2025"
T_vendor_ooo == <<1054, 1054, 1054, 32, 171, 1056, 1086, 1084, 1072, 1096, 1082, 1072, 187, 32, 48, 49, 47, 49, 49, 47, 50, 48, 50, 53>>
\* "a.b@c.ru Чек № 123 СМЕНА: 12"
T_email == <<
    97, 46, 98, 64, 99, 46, 114, 117, 32, 1063, 1077, 1082, 32, 8470, 32, 49, 50, 51, 32, 1057,
    1052, 1045, 1053, 1040, 58, 32, 49, 50
>>
\* "ООО "ДНС Ритейл"\nИНН 2540167061\n13.11.2025\nИТОГО: 10999.00 руб"
T_receipt == <<
    1054, 1054, 1054, 32, 34, 1044, 1053, 1057, 32, 1056, 1080, 1090, 1077, 1081, 1083, 34, 10,
    1048, 1053, 1053, 32, 50, 53, 52, 48, 49, 54, 55, 48, 54, 49, 10, 49, 51, 46, 49, 49, 46,
    50, 48, 50, 53, 10, 1048, 1058, 1054, 1043, 1054, 58, 32, 49, 48, 57, 57, 57, 46, 48, 48,
    32, 1088, 1091, 1073
>>
\* "АО "ТАНДЕР" ООО "Ромашка" 01/11/2025 01.11.25"
T_two_vendors == <<
    1040, 1054, 32, 34, 1058, 1040, 1053, 1044, 1045, 1056, 34, 32, 1054, 1054, 1054, 32, 34,
    1056, 1086, 1084, 1072, 1096, 1082, 1072, 34, 32, 48, 49, 47, 49, 49, 47, 50, 48, 50, 53,
    32, 48, 49, 46, 49, 49, 46, 50, 53
>>
\* "КАССОВЫЙ ЧЕК\nАО "ТАНДЕР"\nИНН 2310031475\n27.09.2025 18:03\nхлеб белый нарезной\nмолоко один литр\nИТОГО: 692.88\nспасибо за покупку"
T_layer == <<
    1050, 1040, 1057, 1057, 1054, 1042, 1067, 1049, 32, 1063, 1045, 1050, 10, 1040, 1054, 32,
    34, 1058, 1040, 1053, 1044, 1045, 1056, 34, 10, 1048, 1053, 1053, 32, 50, 51, 49, 48, 48,
    51, 49, 52, 55, 53, 10, 50, 55, 46, 48, 57, 46, 50, 48, 50, 53, 32, 49, 56, 58, 48, 51, 10,
    1093, 1083, 1077, 1073, 32, 1073, 1077, 1083, 1099, 1081, 32, 1085, 1072, 1088, 1077, 1079,
    1085, 1086, 1081, 10, 1084, 1086, 1083, 1086, 1082, 1086, 32, 1086, 1076, 1080, 1085, 32,
    1083, 1080, 1090, 1088, 10, 1048, 1058, 1054, 1043, 1054, 58, 32, 54, 57, 50, 46, 56, 56,
    10, 1089, 1087, 1072, 1089, 1080, 1073, 1086, 32, 1079, 1072, 32, 1087, 1086, 1082, 1091,
    1087, 1082, 1091
>>

\* "АДРЕС: а б в г д е ж з и к л\nСМЕНА: а б в г д е ж з и к л м\nЧЕК: 12 по"
T_prose == <<
    1040, 1044, 1056, 1045, 1057, 58, 32, 1072, 32, 1073, 32, 1074, 32, 1075, 32, 1076, 32,
    1077, 32, 1078, 32, 1079, 32, 1080, 32, 1082, 32, 1083, 10, 1057, 1052, 1045, 1053, 1040,
    58, 32, 1072, 32, 1073, 32, 1074, 32, 1075, 32, 1076, 32, 1077, 32, 1078, 32, 1079, 32,
    1080, 32, 1082, 32, 1083, 32, 1084, 10, 1063, 1045, 1050, 58, 32, 49, 50, 32, 1087, 1086
>>

PageTexts == {T_scenario1, T_scenario2, T_inn11, T_inn12, T_inn_arabic, T_phone8, T_phone7, T_short,
              T_nine, T_ten, T_blank, T_nofields, T_total_tab, T_two_totals, T_vendor_ooo, T_email, T_receipt,
              T_two_vendors, T_prose}

Scan(t) == [layer |-> <<>>, renders |-> TRUE, ocr |-> [ok |-> TRUE, text |-> t]]
Layer(t) == [layer |-> t, renders |-> TRUE, ocr |-> [ok |-> TRUE, text |-> <<>>]]
OcrFails == [layer |-> <<>>, renders |-> TRUE, ocr |-> [ok |-> FALSE, text |-> <<>>]]
RenderFails == [layer |-> <<>>, renders |-> FALSE, ocr |-> [ok |-> FALSE, text |-> <<>>]]
Pdf(pages) == [opens |-> TRUE, pages |-> pages]
Unreadable == [opens |-> FALSE, pages |-> <<>>]

Docs ==
    {Pdf(<<Scan(t)>>) : t \in PageTexts}
    \cup {Unreadable, Pdf(<<>>), Pdf(<<OcrFails>>), Pdf(<<Layer(T_layer)>>),
          Pdf(<<[layer |-> T_short, renders |-> TRUE, ocr |-> [ok |-> TRUE, text |-> T_scenario1]]>>),
          Pdf(<<Scan(T_scenario1), OcrFails>>), Pdf(<<OcrFails, Scan(T_scenario2)>>),
          Pdf(<<Scan(T_inn12), Scan(T_phone8)>>), Pdf(<<Scan(T_scenario1), RenderFails>>)}

(***************************************************************************)
(* processor.extract_text_from_pdf                                         *)
(***************************************************************************)
OcrMinChars == 100

needs_ocr(text) ==
    LET text_stripped == strip(text)
    IN  \/ Len(text_stripped) < OcrMinChars
        \/ replace(replace(text_stripped, 10, <<>>), 32, <<>>) = <<>>

\* The loop with a failure of the OCR call raised out of it, as a failure to
\* render the page is.
RECURSIVE PagesText_discard(_, _, _)
PagesText_discard(pages, page_num, full_text) ==
    IF page_num > Len(pages) THEN [ok |-> TRUE, text |-> full_text]
    ELSE LET page == pages[page_num]
         IN  IF needs_ocr(page.layer)
             THEN IF ~page.renders \/ ~page.ocr.ok THEN [ok |-> FALSE, text |-> <<>>]
                  ELSE PagesText_discard(pages, page_num + 1, full_text \o page.ocr.text \o <<10>>)
             ELSE PagesText_discard(pages, page_num + 1, full_text \o page.layer \o <<10>>)

\* The loop over the pages; ok is FALSE when a page raised out of the loop.
RECURSIVE PagesText(_, _, _)
PagesText(pages, page_num, full_text) ==
    IF page_num > Len(pages) THEN [ok |-> TRUE, text |-> full_text]
    ELSE LET page == pages[page_num]
         IN  IF needs_ocr(page.layer)
             THEN IF ~page.renders THEN [ok |-> FALSE, text |-> <<>>]
                  ELSE PagesText(pages, page_num + 1,
                                 full_text \o (IF page.ocr.ok THEN page.ocr.text ELSE <<>>) \o <<10>>)
             ELSE PagesText(pages, page_num + 1, full_text \o page.layer \o <<10>>)

extract_text_from_pdf(pdf_bytes) ==
    IF ~pdf_bytes.opens THEN <<>>
    ELSE LET r == PagesText(pdf_bytes.pages, 1, <<>>)
         IN  IF r.ok THEN r.text ELSE <<>>

(***************************************************************************)
(* processor.HYBRID_BERT_MODEL: None when HybridBERTExtractor() raised at  *)
(* import, else the extractor with what its two loaders managed to load.   *)
(***************************************************************************)
NoModel == [loaded |-> FALSE, ml_enabled |-> FALSE, bert |-> FALSE, classifier |-> FALSE]
Models ==
    {NoModel,
     [loaded |-> TRUE, ml_enabled |-> FALSE, bert |-> TRUE, classifier |-> FALSE],
     [loaded |-> TRUE, ml_enabled |-> TRUE, bert |-> TRUE, classifier |-> TRUE],
     [loaded |-> TRUE, ml_enabled |-> TRUE, bert |-> FALSE, classifier |-> TRUE]}

\* The classifier's four sigmoid outputs, in percent.
Confidence(inn, total, date, vendor) ==
    DictV(<< <<<<105, 110, 110>>, <<inn>> >>, <<<<116, 111, 116, 97, 108>>, <<total>> >>,
             <<<<100, 97, 116, 101>>, <<date>> >>, <<<<118, 101, 110, 100, 111, 114>>, <<vendor>> >> >>)
\* "Не удалось извлечь текст из PDF"
ERR_NO_TEXT == <<
    1053, 1077, 32, 1091, 1076, 1072, 1083, 1086, 1089, 1100, 32, 1080, 1079, 1074, 1083, 1077,
    1095, 1100, 32, 1090, 1077, 1082, 1089, 1090, 32, 1080, 1079, 32, 80, 68, 70
>>
\* "PDF может быть пустым или поврежденным"
ERR_NO_TEXT_DETAILS == <<
    80, 68, 70, 32, 1084, 1086, 1078, 1077, 1090, 32, 1073, 1099, 1090, 1100, 32, 1087, 1091,
    1089, 1090, 1099, 1084, 32, 1080, 1083, 1080, 32, 1087, 1086, 1074, 1088, 1077, 1078, 1076,
    1077, 1085, 1085, 1099, 1084
>>
\* "Ошибка при обработке PDF"
ERR_PROCESSING == <<1054, 1096, 1080, 1073, 1082, 1072, 32, 1087, 1088, 1080, 32, 1086, 1073, 1088, 1072, 1073, 1086, 1090, 1082, 1077, 32, 80, 68, 70>>
\* "out of memory"
ERR_DETAILS == <<111, 117, 116, 32, 111, 102, 32, 109, 101, 109, 111, 114, 121>>

ErrorRecord(error, details) ==
    Put(Put(EmptyDict, "error", StrV(error)), "details", StrV(details))

(***************************************************************************)
(* HybridBERTExtractor.get_ml_confidence: `scores` is what the classifier  *)
(* answers for the text, EmptyConfidence when its forward pass raised.     *)
(***************************************************************************)
get_ml_confidence(model, scores) ==
    IF ~model.ml_enabled \/ ~model.bert \/ ~model.classifier THEN EmptyConfidence
    ELSE scores

(***************************************************************************)
(* processor.extract_invoice_data.  `fault` says that the extractor call   *)
(* raises (the except branch of the function).  The result tells what the  *)
(* call returned (ret), whether an exception left it (raised), whether the *)
(* extractor was called (called) and the text that was extracted.          *)
(***************************************************************************)
MinTextChars == 10

\* extract_invoice_data with the minimum taken of the untrimmed text
extract_invoice_data_untrimmed(pdf_bytes, model, scores, fault) ==
    LET text == extract_text_from_pdf(pdf_bytes)
        short == text = <<>> \/ Len(text) < MinTextChars
    IN  [text |-> text, called |-> ~short, raised |-> FALSE,
         ret |-> IF short THEN ErrorRecord(ERR_NO_TEXT, ERR_NO_TEXT_DETAILS)
                 ELSE IF fault THEN ErrorRecord(ERR_PROCESSING, ERR_DETAILS)
                 ELSE LET extracted_data ==
                              IF model.loaded
                              THEN HybridBERTExtractor_predict(text, get_ml_confidence(model, scores))
                              ELSE process_with_regex(text)
                      IN  Del(extracted_data, "ml_confidence")]

\* extract_invoice_data without its try/except
extract_invoice_data_unguarded(pdf_bytes, model, scores, fault) ==
    LET text == extract_text_from_pdf(pdf_bytes)
        short == text = <<>> \/ Len(strip(text)) < MinTextChars
    IN  [text |-> text, called |-> ~short, raised |-> ~short /\ fault,
         ret |-> IF short THEN ErrorRecord(ERR_NO_TEXT, ERR_NO_TEXT_DETAILS)
                 ELSE IF fault THEN EmptyDict
                 ELSE LET extracted_data ==
                              IF model.loaded
                              THEN HybridBERTExtractor_predict(text, get_ml_confidence(model, scores))
                              ELSE process_with_regex(text)
                      IN  Del(extracted_data, "ml_confidence")]

\* extract_invoice_data that keeps the service key 'ml_confidence'
extract_invoice_data_keeps_confidence(pdf_bytes, model, scores, fault) ==
    LET text == extract_text_from_pdf(pdf_bytes)
        short == text = <<>> \/ Len(strip(text)) < MinTextChars
    IN  [text |-> text, called |-> ~short, raised |-> FALSE,
         ret |-> IF short THEN ErrorRecord(ERR_NO_TEXT, ERR_NO_TEXT_DETAILS)
                 ELSE IF fault THEN ErrorRecord(ERR_PROCESSING, ERR_DETAILS)
                 ELSE IF model.loaded
                      THEN HybridBERTExtractor_predict(text, get_ml_confidence(model, scores))
                      ELSE process_with_regex(text)]

extract_invoice_data(pdf_bytes, model, scores, fault) ==
    LET text == extract_text_from_pdf(pdf_bytes)
        short == text = <<>> \/ Len(strip(text)) < MinTextChars
    IN  [text |-> text, called |-> ~short, raised |-> FALSE,
         ret |-> IF short THEN ErrorRecord(ERR_NO_TEXT, ERR_NO_TEXT_DETAILS)
                 ELSE IF fault THEN ErrorRecord(ERR_PROCESSING, ERR_DETAILS)
                 ELSE LET extracted_data ==
                              IF model.loaded
                              THEN HybridBERTExtractor_predict(text, get_ml_confidence(model, scores))
                              ELSE process_with_regex(text)
                      IN  Del(extracted_data, "ml_confidence")]
(***************************************************************************)
(* The single-document pipeline as the service runs it: the process holds  *)
(* one HYBRID_BERT_MODEL and a client submits `doc` again and again.       *)
(* `last` keeps what the latest call did, the inputs the environment chose *)
(* for it, and whether those inputs differ from the call before (varied).  *)
(***************************************************************************)
ScoreChoices == {Confidence(97, 95, 90, 85), Confidence(12, 3, 40, 8), EmptyConfidence}

NoCall ==
    [made |-> FALSE, varied |-> FALSE, model |-> NoModel, scores |-> EmptyConfidence,
     fault |-> FALSE, text |-> <<>>, called |-> FALSE, raised |-> FALSE, ret |-> EmptyDict]

Outcome(model, scores, fault, result) ==
    [made |-> TRUE,
     varied |-> last.made /\ (last.model # model \/ last.scores # scores),
     model |-> model, scores |-> scores, fault |-> fault,
     text |-> result.text, called |-> result.called, raised |-> result.raised,
     ret |-> result.ret]

\* The classifier answers only when get_ml_confidence reaches its forward pass.
ClassifierAnswers(model) ==
    IF model.ml_enabled /\ model.bert /\ model.classifier THEN ScoreChoices
    ELSE {EmptyConfidence}

\* One call of extract_invoice_data(doc).
Request ==
    /\ \E scores \in ClassifierAnswers(HYBRID_BERT_MODEL), fault \in BOOLEAN :
          last' = Outcome(HYBRID_BERT_MODEL, scores, fault,
                          extract_invoice_data(doc, HYBRID_BERT_MODEL, scores, fault))
    /\ UNCHANGED <<doc, HYBRID_BERT_MODEL, prediction, labelVars, storeVars>>
    /\ UNCHANGED <<batchVars, trainVars>>

\* The service process is started again: the module is imported afresh and
\* HYBRID_BERT_MODEL is whatever the loaders manage this time.
Restart ==
    /\ \E model \in Models \ {HYBRID_BERT_MODEL} : HYBRID_BERT_MODEL' = model
    /\ UNCHANGED <<doc, last, prediction, labelVars, storeVars>>
    /\ UNCHANGED <<batchVars, trainVars>>

(***************************************************************************)
(* main.process_pdf_batch.  An uploaded file is its filename, the number   *)
(* of bytes read from it, whether the bytes start with %PDF- (magic) and   *)
(* the PDF the bytes hold.  Each file has its own process_one_file         *)
(* coroutine: "start" before file.read() returned, "running" while the     *)
(* executor thread runs extract_invoice_data, "done" once it returned.     *)
(***************************************************************************)
MaxPdfBytes == 10485760

\* "Файл пуст"
MSG_EMPTY == <<1060, 1072, 1081, 1083, 32, 1087, 1091, 1089, 1090>>
\* "Файл не является PDF документом"
MSG_NOT_PDF == <<
    1060, 1072, 1081, 1083, 32, 1085, 1077, 32, 1103, 1074, 1083, 1103, 1077, 1090, 1089, 1103,
    32, 80, 68, 70, 32, 1076, 1086, 1082, 1091, 1084, 1077, 1085, 1090, 1086, 1084
>>
\* "Размер файла превышает 10 МБ"
MSG_TOO_LARGE == <<
    1056, 1072, 1079, 1084, 1077, 1088, 32, 1092, 1072, 1081, 1083, 1072, 32, 1087, 1088, 1077,
    1074, 1099, 1096, 1072, 1077, 1090, 32, 49, 48, 32, 1052, 1041
>>

ErrorEntry(file, error) == [filename |-> file.filename, status |-> "error", error |-> error]
SuccessEntry(file, data) == [filename |-> file.filename, status |-> "success", data |-> data]
NoEntry == [filename |-> <<>>, status |-> "pending"]

\* a coroutine's position: pc, how it ended (raised: an exception left it), the
\* entry it returned, and what the environment made of its executor call
Returned(entry) == [pc |-> "done", raised |-> FALSE, result |-> entry, fault |-> "none"]
Raised == [pc |-> "done", raised |-> TRUE, result |-> NoEntry, fault |-> "none"]
Started == [pc |-> "start", raised |-> FALSE, result |-> NoEntry, fault |-> "none"]
Running == [pc |-> "running", raised |-> FALSE, result |-> NoEntry, fault |-> "none"]

\* process_one_file from file.read() to the executor call
process_one_file_validate(file) ==
    IF file.size = 0 THEN Returned(ErrorEntry(file, MSG_EMPTY))
    ELSE IF ~file.magic THEN Returned(ErrorEntry(file, MSG_NOT_PDF))
    ELSE IF file.size > MaxPdfBytes THEN Returned(ErrorEntry(file, MSG_TOO_LARGE))
    ELSE Running

\* the entry made without looking for an "error" key in the record
EntryOf_unchecked(file, extracted_data) == SuccessEntry(file, extracted_data)

\* the entry for what extract_invoice_data returned
EntryOf(file, extracted_data) ==
    IF "error" \in DOMAIN extracted_data
    THEN ErrorEntry(file, extracted_data["error"].v)
    ELSE SuccessEntry(file, extracted_data)

\* process_one_file without its try/except
process_one_file_unguarded(file, model, scores, fault, crash) ==
    IF crash THEN Raised
    ELSE Returned(EntryOf(file, extract_invoice_data(file.pdf, model, scores, fault).ret))

\* process_one_file with the record kept in one dict that the threads share:
\* a file that ends after another took over what the other had extracted
process_one_file_shared(file, model, scores, fault, crash) ==
    IF crash THEN Returned(ErrorEntry(file, ERR_DETAILS))
    ELSE IF \E j \in 1..Len(tasks) : tasks[j].result.status = "success"
    THEN Returned(SuccessEntry(file,
             tasks[CHOOSE j \in 1..Len(tasks) : tasks[j].result.status = "success"].result.data))
    ELSE Returned(EntryOf(file, extract_invoice_data(file.pdf, model, scores, fault).ret))

\* process_one_file from the executor call on; `crash` says that the awaited
\* run_in_executor raised (the except branch, error = str(e))
process_one_file(file, model, scores, fault, crash) ==
    IF crash THEN Returned(ErrorEntry(file, ERR_DETAILS))
    ELSE Returned(EntryOf(file, extract_invoice_data(file.pdf, model, scores, fault).ret))

\* results handed over in the order the coroutines ended
gather_as_completed(ts, order) == [k \in 1..Len(order) |-> ts[order[k]].result]

\* asyncio.gather: the results in the order of the awaitables
gather(ts, order) == [i \in 1..Len(ts) |-> ts[i].result]

NoResponse ==
    [made |-> FALSE, status |-> "none", total |-> 0, successful |-> 0, failed |-> 0,
     results |-> <<>>]

ReadFile(i) ==
    /\ tasks[i].pc = "start"
    /\ LET after == process_one_file_validate(files[i])
       IN  /\ tasks' = [tasks EXCEPT ![i] = after]
           /\ finished' = IF after.pc = "done" THEN Append(finished, i) ELSE finished
    /\ UNCHANGED <<files, response, apiVars, prediction, labelVars, storeVars, trainVars>>

FinishFile(i) ==
    /\ tasks[i].pc = "running"
    /\ \E scores \in ClassifierAnswers(HYBRID_BERT_MODEL), fault \in {"none", "extractor", "executor"} :
          tasks' = [tasks EXCEPT ![i] =
                       [process_one_file(files[i], HYBRID_BERT_MODEL, scores,
                                         fault = "extractor", fault = "executor")
                        EXCEPT !.fault = fault]]
    /\ finished' = Append(finished, i)
    /\ UNCHANGED <<files, response, apiVars, prediction, labelVars, storeVars, trainVars>>

\* The executor call of file i never returns (OCR or the embedding model
\* hangs): nothing bounds the await, the coroutine stays there for good.
HangFile(i) ==
    /\ tasks[i].pc = "running"
    /\ tasks' = [tasks EXCEPT ![i].pc = "hung"]
    /\ UNCHANGED <<files, finished, response, apiVars, prediction, labelVars, storeVars, trainVars>>

\* every coroutine ended: gather returns and the handler builds the response;
\* an exception that left a coroutine leaves gather and the handler too
Respond ==
    /\ ~response.made
    /\ \A i \in 1..Len(files) : tasks[i].pc = "done"
    /\ IF \E i \in 1..Len(files) : tasks[i].raised
       THEN response' = [NoResponse EXCEPT !.made = TRUE, !.status = "raised"]
       ELSE LET results == gather(tasks, finished)
            IN  response' =
                    [made |-> TRUE, status |-> "completed", total |-> Len(files),
                     successful |-> Cardinality({i \in 1..Len(results) : results[i].status = "success"}),
                     failed |-> Cardinality({i \in 1..Len(results) : results[i].status = "error"}),
                     results |-> results]
    /\ UNCHANGED <<files, tasks, finished, apiVars, prediction, labelVars, storeVars, trainVars>>

MaxFiles == 2

Uploads ==
    {[size |-> 0, magic |-> FALSE, pdf |-> Unreadable],
     [size |-> 2048, magic |-> FALSE, pdf |-> Unreadable],
     [size |-> MaxPdfBytes + 1, magic |-> TRUE, pdf |-> Pdf(<<Scan(T_inn12)>>)],
     [size |-> MaxPdfBytes, magic |-> TRUE, pdf |-> Pdf(<<Scan(T_inn12)>>)],
     [size |-> 4096, magic |-> TRUE, pdf |-> Pdf(<<Scan(T_short)>>)]}

\* the i-th file of a batch is named f<i>.pdf
Named(upload, i) ==
    [filename |-> <<102, 48 + i, 46, 112, 100, 102>>, size |-> upload.size,
     magic |-> upload.magic, pdf |-> upload.pdf]

Batches ==
    UNION {{[i \in 1..n |-> Named(batch[i], i)] : batch \in [1..n -> Uploads]} : n \in 1..MaxFiles}

(***************************************************************************)
(* InvoiceDataExtractor.train, one step of its loops at a time.            *)
(* `training` is the position of the running call: the arguments, the      *)
(* epoch, the index of the next example and the three tallies of the       *)
(* epoch.  An entry of training_history keeps an epoch's two quotients as  *)
(* <<numerator, denominator>>.  `before` is the weight table as it was     *)
(* when the call was entered.                                              *)
(***************************************************************************)
\* "ИНН 2310031475"
T_inn10 == <<1048, 1053, 1053, 32, 50, 51, 49, 48, 48, 51, 49, 52, 55, 53>>

\* labelled examples (text, ground_truth)
Example(text, truth) == [text |-> text, truth |-> truth]
E_wrong == Example(T_inn10, [inn |-> <<55, 55, 48, 48, 48, 48, 48, 48, 48, 48>>])
E_right == Example(T_inn10, [inn |-> <<50, 51, 49, 48, 48, 51, 49, 52, 55, 53>>])
E_mixed == Example(T_scenario1, [inn |-> <<50, 51, 49, 48, 48, 51, 49, 52, 55, 53>>, total |-> <<49, 48, 48, 46, 48, 48>>])
\* a date that is not in the text "АО "ТАНДЕР" 27.09.2025": "01.01.2000"
E_date == Example(T_scenario2, [date |-> <<48, 49, 46, 48, 49, 46, 50, 48, 48, 48>>])

\* a total for the text "ИНН 2310031475", which has none: "100.00"
E_absent == Example(T_inn10, [total |-> <<49, 48, 48, 46, 48, 48>>])

DefaultEpochs == 20
MaxEpochs == 95
MaxTrainCalls == 2

\* train() calls of no more than one epoch
ShortRuns ==
    {[data |-> <<E_right, E_mixed>>, epochs |-> 1],
     [data |-> <<E_date>>, epochs |-> 1],
     [data |-> <<E_right>>, epochs |-> 0]}

\* the train(training_data, epochs) calls made
TrainingRuns ==
    ShortRuns
    \cup {[data |-> <<E_wrong>>, epochs |-> MaxEpochs],
          [data |-> <<E_wrong>>, epochs |-> DefaultEpochs],
          [data |-> <<E_absent>>, epochs |-> 1]}

NoTraining ==
    [active |-> FALSE, raised |-> FALSE, data |-> <<>>, epochs |-> 0, epoch |-> 0, idx |-> 1,
     epoch_loss |-> 0, correct_predictions |-> 0, total_predictions |-> 0,
     before |-> DefaultWeights]

\* train() is entered
TrainBegin(run) ==
    /\ ~training.active
    /\ train_calls < MaxTrainCalls
    /\ train_calls' = train_calls + 1
    /\ training' = [NoTraining EXCEPT !.active = TRUE, !.data = run.data, !.epochs = run.epochs,
                                    !.before = pattern_weights]
    /\ UNCHANGED <<pattern_weights, is_trained, training_history, training_date>>
    /\ UNCHANGED <<apiVars, prediction, labelVars, storeVars, batchVars>>

\* the body of the inner loop for the next example
TrainStep ==
    /\ training.active
    /\ training.epoch < training.epochs
    /\ training.idx <= Len(training.data)
    /\ LET tally == TrainExample([weights |-> pattern_weights, loss |-> training.epoch_loss,
                                   correct |-> training.correct_predictions,
                                   total |-> training.total_predictions],
                                  training.data[training.idx])
       IN  /\ pattern_weights' = tally.weights
           /\ training' = [training EXCEPT !.idx = @ + 1, !.epoch_loss = tally.loss,
                                            !.correct_predictions = tally.correct,
                                            !.total_predictions = tally.total]
    /\ UNCHANGED <<is_trained, training_history, train_calls, training_date>>
    /\ UNCHANGED <<apiVars, prediction, labelVars, storeVars, batchVars>>

\* the metrics of the epoch are appended and the next epoch begins
TrainEpochEnd ==
    /\ training.active
    /\ training.epoch < training.epochs
    /\ training.idx > Len(training.data)
    /\ training_history' =
           Append(training_history,
                  [loss |-> <<training.epoch_loss, training.total_predictions>>,
                   accuracy |-> <<training.correct_predictions, training.total_predictions>>])
    /\ training' = [training EXCEPT !.epoch = @ + 1, !.idx = 1, !.epoch_loss = 0,
                                     !.correct_predictions = 0, !.total_predictions = 0]
    /\ UNCHANGED <<pattern_weights, is_trained, train_calls, training_date>>
    /\ UNCHANGED <<apiVars, prediction, labelVars, storeVars, batchVars>>

\* after the last epoch: is_trained and training_date are set, then the final
\* metrics are read from training_history[...][-1], an IndexError when no
\* epoch was ever run.  datetime.now() of the n-th call is written n.
TrainEnd ==
    /\ training.active
    /\ training.epoch = training.epochs
    /\ is_trained' = TRUE
    /\ training_date' = train_calls
    /\ training' = [NoTraining EXCEPT !.raised = (training_history = <<>>)]
    /\ UNCHANGED <<pattern_weights, training_history, train_calls>>
    /\ UNCHANGED <<apiVars, prediction, labelVars, storeVars, batchVars>>

(***************************************************************************)
(* Calls of the two rule-based extractors on a text, between train calls.  *)
(* `prediction` keeps the latest call: the extractor (path), the text, the *)
(* weights it ran with, the record it returned and whether the call before *)
(* had the same extractor, text and weights (again).                       *)
(***************************************************************************)
NoPrediction ==
    [made |-> FALSE, again |-> FALSE, path |-> "none", text |-> <<>>,
     weights |-> DefaultWeights, ret |-> EmptyDict]

Predicted(path, text, ret) ==
    [made |-> TRUE,
     again |-> /\ prediction.made /\ prediction.path = path /\ prediction.text = text
               /\ prediction.weights = pattern_weights,
     path |-> path, text |-> text, weights |-> pattern_weights, ret |-> ret]

PredictTexts == {T_scenario2 \o <<10>>, T_inn11 \o <<10>>, T_total_tab \o <<10>>}

\* InvoiceDataExtractor.predict(text)
Predict(text) ==
    /\ ~training.active
    /\ prediction' = Predicted("ml", text, InvoiceDataExtractor_predict(text, pattern_weights))
    /\ UNCHANGED <<apiVars, batchVars, trainVars, labelVars, storeVars>>

\* InvoiceDataExtractor.predict(text) called from another thread while a
\* train() call on the same extractor is between two examples: extract_field
\* reads self.pattern_weights, the table that _update_weights writes in place
PredictWhileTraining(text) ==
    /\ training.active
    /\ prediction' = Predicted("ml", text, InvoiceDataExtractor_predict(text, pattern_weights))
    /\ UNCHANGED <<apiVars, batchVars, trainVars, labelVars, storeVars>>

\* processor.process_with_regex(text)
Fallback(text) ==
    /\ ~training.active
    /\ prediction' = Predicted("regex", text, process_with_regex(text))
    /\ UNCHANGED <<apiVars, batchVars, trainVars, labelVars, storeVars>>
(***************************************************************************)
(* auto_extract_training_data: the script that labels the PDFs of a folder *)
(* with its own patterns and writes the examples the trainer reads.        *)
(***************************************************************************)
\* app/auto_extract_training_data.py:50-50  extract_data_from_text
\*   r"ИНН[:\s]*(\d{10,12})"
auto_inn_re ==
    <<Str(<<1048, 1053, 1053>>), Rep(0, -1, <<In({58} \cup Space)>>), Group(1, <<Rep(10, 12, <<In(Digit)>>)>>)>>

\* app/auto_extract_training_data.py:56-63  extract_data_from_text
\*   r"(ООО\s+[\"«]?[^\"»\n]+[\"»]?)"
\*   r"(АО\s+[\"«]?[^\"»\n]+[\"»]?)"
\*   r"(ИП\s+[А-ЯЁ][а-яё]+\s+[А-ЯЁ][а-яё]+\s+[А-ЯЁ][а-яё]+)"
auto_vendor_patterns == <<
    <<Group(1, <<Str(<<1054, 1054, 1054>>), Rep(1, -1, <<In(Space)>>), Rep(0, 1, <<In({34, 171})>>), Rep(1, -1, <<NotIn({34, 187, 10})>>), Rep(0, 1, <<In({34, 187})>>)>>)>>,
    <<Group(1, <<Str(<<1040, 1054>>), Rep(1, -1, <<In(Space)>>), Rep(0, 1, <<In({34, 171})>>), Rep(1, -1, <<NotIn({34, 187, 10})>>), Rep(0, 1, <<In({34, 187})>>)>>)>>,
    <<Group(1, <<Str(<<1048, 1055>>), Rep(1, -1, <<In(Space)>>), In({1025} \cup (1040..1071)), Rep(1, -1, <<In({1105} \cup (1072..1103))>>), Rep(1, -1, <<In(Space)>>), In({1025} \cup (1040..1071)), Rep(1, -1, <<In({1105} \cup (1072..1103))>>), Rep(1, -1, <<In(Space)>>), In({1025} \cup (1040..1071)), Rep(1, -1, <<In({1105} \cup (1072..1103))>>)>>)>>
>>

\* app/auto_extract_training_data.py:70-73  extract_data_from_text
\*   r"(\d{2}\.\d{2}\.\d{4})"
\*   r"(\d{2}/\d{2}/\d{4})"
auto_date_patterns == <<
    <<Group(1, <<Rep(2, 2, <<In(Digit)>>), Str(<<46>>), Rep(2, 2, <<In(Digit)>>), Str(<<46>>), Rep(4, 4, <<In(Digit)>>)>>)>>,
    <<Group(1, <<Rep(2, 2, <<In(Digit)>>), Str(<<47>>), Rep(2, 2, <<In(Digit)>>), Str(<<47>>), Rep(4, 4, <<In(Digit)>>)>>)>>
>>

\* app/auto_extract_training_data.py:76-87  extract_data_from_text
\*   r"(\d{1,2}\s+(?:января|февраля|марта|апреля|мая|июня|июля|августа|сентября|октября|ноября|декабря)\s+\d{4})"
\*   r"(\d{1,2}\s+(?:янв|фев|мар|апр|мая|июн|июл|авг|сен|окт|ноя|дек)\s+\d{4})"
auto_month_patterns == <<
    <<Group(1, <<Rep(1, 2, <<In(Digit)>>), Rep(1, -1, <<In(Space)>>), Branch(<<<<Str(<<1103, 1085, 1074, 1072, 1088, 1103>>)>>, <<Str(<<1092, 1077, 1074, 1088, 1072, 1083, 1103>>)>>, <<Str(<<1084, 1072, 1088, 1090, 1072>>)>>, <<Str(<<1072, 1087, 1088, 1077, 1083, 1103>>)>>, <<Str(<<1084, 1072, 1103>>)>>, <<Str(<<1080, 1102, 1085, 1103>>)>>, <<Str(<<1080, 1102, 1083, 1103>>)>>, <<Str(<<1072, 1074, 1075, 1091, 1089, 1090, 1072>>)>>, <<Str(<<1089, 1077, 1085, 1090, 1103, 1073, 1088, 1103>>)>>, <<Str(<<1086, 1082, 1090, 1103, 1073, 1088, 1103>>)>>, <<Str(<<1085, 1086, 1103, 1073, 1088, 1103>>)>>, <<Str(<<1076, 1077, 1082, 1072, 1073, 1088, 1103>>)>>>>), Rep(1, -1, <<In(Space)>>), Rep(4, 4, <<In(Digit)>>)>>)>>,
    <<Group(1, <<Rep(1, 2, <<In(Digit)>>), Rep(1, -1, <<In(Space)>>), Branch(<<<<Str(<<1103, 1085, 1074>>)>>, <<Str(<<1092, 1077, 1074>>)>>, <<Str(<<1084, 1072, 1088>>)>>, <<Str(<<1072, 1087, 1088>>)>>, <<Str(<<1084, 1072, 1103>>)>>, <<Str(<<1080, 1102, 1085>>)>>, <<Str(<<1080, 1102, 1083>>)>>, <<Str(<<1072, 1074, 1075>>)>>, <<Str(<<1089, 1077, 1085>>)>>, <<Str(<<1086, 1082, 1090>>)>>, <<Str(<<1085, 1086, 1103>>)>>, <<Str(<<1076, 1077, 1082>>)>>>>), Rep(1, -1, <<In(Space)>>), Rep(4, 4, <<In(Digit)>>)>>)>>
>>

\* app/auto_extract_training_data.py:93-97  extract_data_from_text
\*   r"(?:Итого|ИТОГО|Всего|ВСЕГО|К оплате|Сумма|СУММА|итог|total)[:\s=]*([\d\s]+[.,]\d{1,2})"
auto_total_re ==
    <<Branch(<<<<Str(<<1048, 1090, 1086, 1075, 1086>>)>>, <<Str(<<1048, 1058, 1054, 1043, 1054>>)>>, <<Str(<<1042, 1089, 1077, 1075, 1086>>)>>, <<Str(<<1042, 1057, 1045, 1043, 1054>>)>>, <<Str(<<1050, 32, 1086, 1087, 1083, 1072, 1090, 1077>>)>>, <<Str(<<1057, 1091, 1084, 1084, 1072>>)>>, <<Str(<<1057, 1059, 1052, 1052, 1040>>)>>, <<Str(<<1080, 1090, 1086, 1075>>)>>, <<Str(<<116, 111, 116, 97, 108>>)>>>>), Rep(0, -1, <<In({58, 61} \cup Space)>>), Group(1, <<Rep(1, -1, <<In(Digit \cup Space)>>), In({46, 44}), Rep(1, 2, <<In(Digit)>>)>>)>>

\* app/auto_extract_training_data.py:101-101  extract_data_from_text
\*   r"[=]\s*([\d\s]+[.,]\d{1,2})"
auto_equals_re ==
    <<Str(<<61>>), Rep(0, -1, <<In(Space)>>), Group(1, <<Rep(1, -1, <<In(Digit \cup Space)>>), In({46, 44}), Rep(1, 2, <<In(Digit)>>)>>)>>

\* app/auto_extract_training_data.py:106-106  extract_data_from_text
\*   r"\b(\d{2,}[.,]\d{1,2})\b"
auto_amount_re ==
    <<At("boundary"), Group(1, <<Rep(2, -1, <<In(Digit)>>), In({46, 44}), Rep(1, 2, <<In(Digit)>>)>>), At("boundary")>>
NoiseFloor == 100
MinLabelChars == 20
TrainingTextChars == 500

\* vendor_match.group(1).strip() without the three quote marks
AutoVendor(vendor) == StrV(replace(replace(replace(vendor, 171, <<>>), 187, <<>>), 34, <<>>))

PutAutoVendor(d, text, vendor_match) ==
    IF vendor_match.ok THEN Put(d, "vendor", AutoVendor(strip(group(text, vendor_match, 1)))) ELSE d

\* float(amt.replace(',', '.')) for every string findall returned; a string
\* float() rejects is passed over
RECURSIVE amounts_as_float(_, _, _)
amounts_as_float(text, all_amounts, j) ==
    IF j > Len(all_amounts) THEN <<>>
    ELSE LET clean_amt == float(replace(group(text, all_amounts[j], 1), 44, <<46>>))
         IN  (IF clean_amt.ok THEN <<clean_amt.val>> ELSE <<>>)
             \o amounts_as_float(text, all_amounts, j + 1)

\* the first amount: what max() would give if it did not compare
MaxAmount_first(amounts, j, best) == best

\* max(amounts_as_float), best being the largest of the first j - 1
RECURSIVE MaxAmount(_, _, _)
MaxAmount(amounts, j, best) ==
    IF j > Len(amounts) THEN best
    ELSE MaxAmount(amounts, j + 1, IF amounts[j] > best THEN amounts[j] ELSE best)

\* if max_amount >= 1.0: data['total'] = max_amount
PutAbove(d, max_amount) == IF max_amount >= NoiseFloor THEN Put(d, "total", FloatV(max_amount)) ELSE d

PutMaxAmount(d, amounts) ==
    IF amounts # <<>> THEN PutAbove(d, MaxAmount(amounts, 2, amounts[1])) ELSE d

\* the labelled or equals-sign total when there is one, else the largest amount
PutAutoTotal(d, text, total_match) ==
    IF total_match.ok
    THEN Put(d, "total", AmountValue(replace(replace(group(text, total_match, 1), 32, <<>>), 44, <<46>>)))
    ELSE PutMaxAmount(d, amounts_as_float(text, finditer(auto_amount_re, text, FALSE), 1))

extract_data_from_text(text) ==
    LET d1 == PutGroup(EmptyDict, "inn", text, search(auto_inn_re, text, TRUE), 1, FALSE)
        d2 == PutAutoVendor(d1, text, FirstMatch(auto_vendor_patterns, text, FALSE, 1))
        d3 == PutGroup(d2, "date", text,
                       OrElse(FirstMatch(auto_date_patterns, text, FALSE, 1),
                              FirstMatch(auto_month_patterns, text, TRUE, 1)), 1, FALSE)
        d4 == PutAutoTotal(d3, text,
                           OrElse(search(auto_total_re, text, TRUE),
                                  search(auto_equals_re, text, FALSE)))
    IN  d4

\* ' '.join(s.split()): the words of s with one space between them
RECURSIVE JoinWords(_, _)
JoinWords(s, word) ==
    IF s = <<>> THEN word
    ELSE IF Head(s) \in Space
    THEN IF word = <<>> THEN JoinWords(lstrip(s), <<>>)
         ELSE IF lstrip(s) = <<>> THEN word
         ELSE word \o <<32>> \o JoinWords(lstrip(s), <<>>)
    ELSE JoinWords(Tail(s), Append(word, Head(s)))

Prefix(s, n) == SubSeq(s, 1, IF Len(s) < n THEN Len(s) ELSE n)

\* data.get(key) is truthy
Got(data, key) == key \in DOMAIN data /\ data[key].v # <<>>

Skipped(text, called, data) == [ok |-> FALSE, text |-> text, called |-> called, data |-> data, training_text |-> <<>>]

\* the tail of process_pdf_file, after extract_data_from_text returned data
Labelled(text, data) ==
    IF ~Got(data, "inn") /\ ~Got(data, "vendor") THEN Skipped(text, TRUE, data)
    ELSE [ok |-> TRUE, text |-> text, called |-> TRUE, data |-> data,
          training_text |-> JoinWords(Prefix(text, TrainingTextChars), <<>>)]

LabelText(text) ==
    IF text = <<>> \/ Len(strip(text)) < MinLabelChars THEN Skipped(text, FALSE, EmptyDict)
    ELSE Labelled(text, extract_data_from_text(text))

\* io_error: open() or read() raised; the except clause returns (None, None)
process_pdf_file(pdf_path, io_error) ==
    IF io_error THEN Skipped(<<>>, FALSE, EmptyDict)
    ELSE LabelText(extract_text_from_pdf(pdf_path))

(***************************************************************************)
(* main(): the loop over the folder, then the JSON file.  `labelling` is   *)
(* the position of the loop with what the latest process_pdf_file did.     *)
(***************************************************************************)
\* "ООО "Ромашка" 150.00 1999.50 99,9"
L_amounts == <<
    1054, 1054, 1054, 32, 34, 1056, 1086, 1084, 1072, 1096, 1082, 1072, 34, 32, 49, 53, 48, 46,
    48, 48, 32, 49, 57, 57, 57, 46, 53, 48, 32, 57, 57, 44, 57
>>
\* "ИНН 2310031475 скидка 01.00"
L_floor == <<
    1048, 1053, 1053, 32, 50, 51, 49, 48, 48, 51, 49, 52, 55, 53, 32, 1089, 1082, 1080, 1076,
    1082, 1072, 32, 48, 49, 46, 48, 48
>>
\* "ИНН 2310031475 вес 00.50 кг"
L_below == <<
    1048, 1053, 1053, 32, 50, 51, 49, 48, 48, 51, 49, 52, 55, 53, 32, 1074, 1077, 1089, 32, 48,
    48, 46, 53, 48, 32, 1082, 1075
>>
\* "ИНН 2310031475 = 92.88 150.00"
L_equals == <<
    1048, 1053, 1053, 32, 50, 51, 49, 48, 48, 51, 49, 52, 55, 53, 32, 61, 32, 57, 50, 46, 56,
    56, 32, 49, 53, 48, 46, 48, 48
>>

MaxPdfs == 2
LabelDocs ==
    {Pdf(<<Scan(t)>>) : t \in {L_amounts, L_floor, L_below, L_equals, T_receipt, T_nofields}}

RECURSIVE Folders(_)
Folders(n) ==
    IF n = 0 THEN {<<>>}
    ELSE Folders(n - 1) \cup {Append(f, d) : f \in {g \in Folders(n - 1) : Len(g) = n - 1}, d \in LabelDocs}

NoLabelling ==
    [pos |-> 1, saved |-> FALSE, called |-> FALSE, ok |-> FALSE, text |-> <<>>, data |-> EmptyDict]

\* what the loop keeps of one process_pdf_file result
Looped(r) ==
    [pos |-> labelling.pos + 1, saved |-> FALSE, called |-> r.called, ok |-> r.ok,
     text |-> r.text, data |-> r.data]

\* if text and data: training_data.append((text, data))
Appended(r) ==
    IF r.ok /\ r.training_text # <<>> /\ DOMAIN r.data # {}
    THEN Append(training_data, [text |-> r.training_text, data |-> r.data])
    ELSE training_data

LoopStep(r) == labelling' = Looped(r) /\ training_data' = Appended(r)

\* one turn of the loop `for pdf_file in pdf_files`
ProcessPdf ==
    /\ labelling.pos <= Len(pdf_files)
    /\ \E io_error \in BOOLEAN : LoopStep(process_pdf_file(pdf_files[labelling.pos], io_error))
    /\ UNCHANGED <<pdf_files, apiVars, prediction, batchVars, trainVars, storeVars>>

\* after the loop: training_data.json is written and main returns
SaveTrainingData ==
    /\ labelling.pos > Len(pdf_files)
    /\ ~labelling.saved
    /\ labelling' = [labelling EXCEPT !.saved = TRUE]
    /\ UNCHANGED <<pdf_files, training_data, apiVars, prediction, batchVars, trainVars, storeVars>>

(***************************************************************************)
(* InvoiceDataExtractor.save and InvoiceDataExtractor.load.  The pickled   *)
(* model_data is written as a record of the attributes; its 'patterns' is  *)
(* the table every extractor is constructed with and nothing assigns, the  *)
(* operator patterns on both sides.                                        *)
(***************************************************************************)
\* self.model_version = "1.0"
model_version == <<49, 46, 48>>

\* training_date = None
NoDate == 0

\* the attributes of the extractor as save() collects them
ModelData ==
    [pattern_weights |-> pattern_weights, training_history |-> training_history,
     is_trained |-> is_trained, model_version |-> model_version,
     training_date |-> training_date]

\* the attributes of cls()
NewModel ==
    [pattern_weights |-> DefaultWeights, training_history |-> <<>>, is_trained |-> FALSE,
     model_version |-> model_version, training_date |-> NoDate]

NoFile == [written |-> FALSE, model_data |-> NewModel]
NoLoad == [made |-> FALSE, raised |-> FALSE, model |-> NewModel]

\* load() from the attributes on: they are assigned from model_data, then
\* training_history['accuracy'][-1] is printed before the model is returned,
\* an IndexError when the history is empty (no model is returned then)
LoadedFrom(model_data) ==
    IF model_data.training_history = <<>>
    THEN [made |-> TRUE, raised |-> TRUE, model |-> NewModel]
    ELSE [made |-> TRUE, raised |-> FALSE, model |-> model_data]

\* extractor.save(filepath), between two train() calls
Save ==
    /\ ~training.active
    /\ model_file' = [written |-> TRUE, model_data |-> ModelData]
    /\ UNCHANGED <<loaded, apiVars, prediction, batchVars, trainVars, labelVars>>

\* InvoiceDataExtractor.load(filepath) of the file save() wrote
Load ==
    /\ model_file.written
    /\ loaded' = LoadedFrom(model_file.model_data)
    /\ UNCHANGED <<model_file, apiVars, prediction, batchVars, trainVars, labelVars>>

(***************************************************************************)
(* Specifications.  Each one drives one part of the program; the other     *)
(* parts stay idle.                                                        *)
(***************************************************************************)
ApiIdle == doc = Unreadable /\ HYBRID_BERT_MODEL = NoModel /\ last = NoCall
PredictIdle == prediction = NoPrediction
BatchIdle == files = <<>> /\ tasks = <<>> /\ finished = <<>> /\ response = NoResponse
TrainIdle ==
    /\ pattern_weights = DefaultWeights
    /\ is_trained = FALSE
    /\ training = NoTraining
    /\ training_history = <<>>
    /\ train_calls = 0
    /\ training_date = NoDate

LabelIdle == pdf_files = <<>> /\ training_data = <<>> /\ labelling = NoLabelling
StoreIdle == model_file = NoFile /\ loaded = NoLoad

\* one service process, one document submitted any number of times
Init ==
    /\ doc \in Docs
    /\ HYBRID_BERT_MODEL \in Models
    /\ last = NoCall
    /\ PredictIdle /\ BatchIdle /\ TrainIdle /\ LabelIdle /\ StoreIdle

Next == Request

Spec == Init /\ [][Next]_vars

\* the same, with the service restarted between the calls
RestartDocs == {Pdf(<<Scan(T_scenario1)>>), Pdf(<<Scan(T_phone8)>>), Pdf(<<Scan(T_short)>>)}

InitRestart ==
    /\ doc \in RestartDocs
    /\ HYBRID_BERT_MODEL \in Models
    /\ last = NoCall
    /\ PredictIdle /\ BatchIdle /\ TrainIdle /\ LabelIdle /\ StoreIdle

NextRestart == Request \/ Restart

SpecRestart == InitRestart /\ [][NextRestart]_vars

\* one request to /api/process-batch/
InitBatch ==
    /\ files \in Batches
    /\ tasks = [i \in 1..Len(files) |-> Started]
    /\ finished = <<>>
    /\ response = NoResponse
    /\ doc = Unreadable
    /\ HYBRID_BERT_MODEL \in {m \in Models : ~m.ml_enabled}
    /\ last = NoCall
    /\ PredictIdle /\ TrainIdle /\ LabelIdle /\ StoreIdle

NextBatch ==
    \/ \E i \in 1..Len(files) : ReadFile(i)
    \/ \E i \in 1..Len(files) : FinishFile(i)
    \/ Respond

SpecBatch == InitBatch /\ [][NextBatch]_vars

\* the same request when an executor call may hang.  The event loop resumes
\* every coroutine that can go on, and an executor thread that does not hang
\* returns.
NextBatchHang ==
    \/ \E i \in 1..Len(files) : ReadFile(i)
    \/ \E i \in 1..Len(files) : FinishFile(i)
    \/ \E i \in 1..Len(files) : HangFile(i)
    \/ Respond

\* FinishFile(i) is enabled exactly while task i is running and every step of
\* it ends that, so its weak fairness is: task i is not running for ever.
FairBatch ==
    /\ \A i \in 1..MaxFiles : WF_vars(i <= Len(files) /\ ReadFile(i))
    /\ \A i \in 1..MaxFiles : []<>(i <= Len(files) => tasks[i].pc # "running")
    /\ WF_vars(Respond)

SpecBatchHang == InitBatch /\ [][NextBatchHang]_vars /\ FairBatch

\* the trainable extractor: train() called with labelled examples
InitTrain == ApiIdle /\ PredictIdle /\ BatchIdle /\ TrainIdle /\ LabelIdle /\ StoreIdle

NextTrain ==
    \/ \E run \in TrainingRuns : TrainBegin(run)
    \/ TrainStep
    \/ TrainEpochEnd
    \/ TrainEnd

SpecTrain == InitTrain /\ [][NextTrain]_vars

\* the extractors called on texts, with short train() calls in between
NextPredict ==
    \/ \E run \in ShortRuns : TrainBegin(run)
    \/ TrainStep
    \/ TrainEpochEnd
    \/ TrainEnd
    \/ \E text \in PredictTexts : Predict(text)
    \/ \E text \in PredictTexts : Fallback(text)

SpecPredict == InitTrain /\ [][NextPredict]_vars

\* the trainable extractor shared by a thread that trains it and a thread
\* that extracts with it
NextShared ==
    \/ \E run \in ShortRuns : TrainBegin(run)
    \/ TrainStep
    \/ TrainEpochEnd
    \/ TrainEnd
    \/ \E text \in PredictTexts : Predict(text)
    \/ \E text \in PredictTexts : PredictWhileTraining(text)

SpecShared == InitTrain /\ [][NextShared]_vars

\* the trainable extractor trained, saved to a file and loaded from it
NextStore ==
    \/ \E run \in ShortRuns : TrainBegin(run)
    \/ TrainStep
    \/ TrainEpochEnd
    \/ TrainEnd
    \/ Save
    \/ Load

SpecStore == InitTrain /\ [][NextStore]_vars

\* one run of auto_extract_training_data.main() over a folder of PDFs
InitLabel ==
    /\ pdf_files \in Folders(MaxPdfs)
    /\ training_data = <<>>
    /\ labelling = NoLabelling
    /\ ApiIdle /\ PredictIdle /\ BatchIdle /\ TrainIdle /\ StoreIdle

NextLabel == ProcessPdf \/ SaveTrainingData

SpecLabel == InitLabel /\ [][NextLabel]_vars

(***************************************************************************)
(* Properties of the single-document pipeline.                             *)
(***************************************************************************)
MandatoryKeys == {"inn", "vendor", "date", "total"}
InputError == ErrorRecord(ERR_NO_TEXT, ERR_NO_TEXT_DETAILS)

\* C1: every record that is not an error record carries all four mandatory
\* keys inn, vendor, date and total (each a value or the sentinel).
C1_MandatoryKeysPresent ==
    last.made /\ "error" \notin DOMAIN last.ret => MandatoryKeys \subseteq DOMAIN last.ret

\* C2: a text whose trimmed length is below the minimum gives the input-error
\* record {error, details} with no field keys and the extractor is not called;
\* a text at or above the minimum never gives that record.
C2_ShortTextIsInputError ==
    last.made =>
        IF Len(strip(last.text)) < MinTextChars
        THEN last.ret = InputError /\ DOMAIN last.ret = {"error", "details"} /\ ~last.called
        ELSE last.ret # InputError /\ last.called

\* C2 witness: an untrimmed text of at least the minimum whose trimmed length
\* is below it was answered with the input-error record.
C2_Witness ==
    /\ last.made /\ last.ret = InputError
    /\ Len(last.text) >= MinTextChars
    /\ Len(strip(last.text)) > 0

\* C3: no exception leaves extract_invoice_data; the result is an error record
\* {error, details} or a record without an error key.
C3_NeverRaises ==
    last.made =>
        /\ ~last.raised
        /\ \/ DOMAIN last.ret = {"error", "details"}
           \/ "error" \notin DOMAIN last.ret /\ DOMAIN last.ret # {}

\* C3 witness: the extractor raised and the call returned the processing error.
C3_Witness ==
    /\ last.made /\ last.fault /\ last.called /\ ~last.raised
    /\ last.ret = ErrorRecord(ERR_PROCESSING, ERR_DETAILS)

\* C4: two calls with the hybrid extractor on the same text that differ only
\* in the classifier's scores, or in whether the classifier is enabled, return
\* the same record, and no returned record has the key ml_confidence.
C4_ConfidenceIndependent ==
    [][/\ "ml_confidence" \notin DOMAIN last'.ret
       /\ (/\ last.made /\ last'.made
           /\ last.model.loaded /\ last'.model.loaded
           /\ last'.text = last.text /\ last'.fault = last.fault)
          => last'.ret = last.ret]_vars

\* C4 witness: a call that got scores from the classifier, after a call with
\* other scores or another model, returned a field record.
C4_Witness ==
    /\ last.made /\ last.varied /\ last.scores # EmptyConfidence
    /\ last.called /\ ~last.fault /\ "inn" \in DOMAIN last.ret

\* C7: an inn other than the sentinel is exactly 10 or exactly 12 ASCII digits.
C7_InnTenOrTwelveDigits ==
    last.made /\ "inn" \in DOMAIN last.ret /\ last.ret["inn"] # UNRECOGNIZED =>
        LET v == last.ret["inn"].v
        IN  Len(v) \in {10, 12} /\ \A j \in 1..Len(v) : v[j] \in AsciiDigit

\* C8: a phone, when present, is "+7" followed by exactly ten digits.
C8_PhoneNormalised ==
    last.made /\ "phone" \in DOMAIN last.ret =>
        LET v == last.ret["phone"].v
        IN  Len(v) = 12 /\ v[1] = 43 /\ v[2] = 55 /\ \A j \in 3..12 : v[j] \in AsciiDigit

\* C11: a recognised total is a number whenever its cleaned text parses as a
\* number, and a string only when the parse fails, whichever extractor made
\* the record.
C11_TotalNumericWhenParseable ==
    last.made /\ "total" \in DOMAIN last.ret /\ last.ret["total"] # UNRECOGNIZED =>
        \/ last.ret["total"].ty = "float"
        \/ /\ last.ret["total"].ty = "str"
           /\ ~float(replace(replace(last.ret["total"].v, 32, <<>>), 44, <<46>>)).ok

OptionalKeys == {"invoice_number", "phone", "email", "address"}

\* C13: the optional keys invoice_number, phone, email and address are in a
\* record only when the field was found: none of them ever holds the sentinel
\* UNRECOGNIZED (a field that was not found has no key).
C13_OptionalNeverSentinel ==
    last.made /\ "error" \notin DOMAIN last.ret =>
        \A key \in OptionalKeys \cap DOMAIN last.ret : last.ret[key] # UNRECOGNIZED

\* C19: a recognised vendor holds none of the quotation marks « » " and has no
\* white space around it, whichever extractor made the record.
C19_VendorWithoutQuotes ==
    last.made /\ "vendor" \in DOMAIN last.ret /\ last.ret["vendor"] # UNRECOGNIZED =>
        /\ \A j \in 1..Len(last.ret["vendor"].v) : last.ret["vendor"].v[j] \notin {171, 187, 34}
        /\ strip(last.ret["vendor"].v) = last.ret["vendor"].v

\* whether rule j of the vendor cascade (1: ООО, 2: АО, 3: ИП) matches somewhere
VendorRuleMatches(text, j) == search(processor_vendor_patterns[j], text, FALSE).ok

StartsWith(s, prefix) == Len(s) >= Len(prefix) /\ SubSeq(s, 1, Len(prefix)) = prefix

\* C18: the vendor comes from the first rule of the cascade that matches
\* anywhere in the text: an ООО vendor whenever the ООО rule matches, even
\* after an АО form, and an АО vendor only when the ООО rule does not match.
C18_VendorCascade ==
    last.made /\ "vendor" \in DOMAIN last.ret /\ last.ret["vendor"] # UNRECOGNIZED =>
        /\ VendorRuleMatches(last.text, 1)
               => StartsWith(last.ret["vendor"].v, <<1054, 1054, 1054>>)
        /\ StartsWith(last.ret["vendor"].v, <<1040, 1054>>)
               => ~VendorRuleMatches(last.text, 1)

\* C20: the date is the first occurrence of the first of the five formats, in
\* cascade order, that occurs anywhere in the text; a text with a date in any
\* of the five formats gives that date.
C20_DateCascade ==
    last.made /\ "error" \notin DOMAIN last.ret
    /\ FirstMatch(processor_date_patterns, last.text, TRUE, 1).ok =>
        /\ "date" \in DOMAIN last.ret
        /\ last.ret["date"] =
               StrV(group(last.text, FirstMatch(processor_date_patterns, last.text, TRUE, 1), 1))

(***************************************************************************)
(* Properties of the batch endpoint.                                       *)
(***************************************************************************)
\* C5: the response to a batch of N files has N results and result i carries
\* the filename of file i, whatever the order in which the files finished.
C5_ResultsInInputOrder ==
    response.made /\ response.status = "completed" =>
        /\ Len(response.results) = Len(files)
        /\ \A i \in 1..Len(files) : response.results[i].filename = files[i].filename

\* C5 witness: a batch of two good files answered after the second file
\* finished before the first.
C5_Witness ==
    /\ response.made /\ Len(response.results) >= 2
    /\ finished[1] = 2
    /\ response.results[1].status = "success" /\ response.results[2].status = "success"

\* A file is bad when it is empty, not a PDF, oversized, or its extraction
\* gave an error record or raised.
BadFile(i) ==
    \/ files[i].size = 0
    \/ ~files[i].magic
    \/ files[i].size > MaxPdfBytes
    \/ Len(strip(extract_text_from_pdf(files[i].pdf))) < MinTextChars
    \/ tasks[i].fault # "none"

\* C6: a bad file gives an entry with status "error" for that file only: the
\* batch status stays "completed" and every other file's entry is the one its
\* own coroutine returned.
C6_BadFileIsolated ==
    response.made =>
        /\ response.status = "completed"
        /\ \A i \in 1..Len(files) :
              /\ response.results[i] = tasks[i].result
              /\ response.results[i].status = (IF BadFile(i) THEN "error" ELSE "success")

\* C6 witness: a batch with a file whose processing raised and a file that
\* succeeded.
C6_Witness ==
    /\ response.made /\ response.status = "completed"
    /\ \E i, j \in 1..Len(files) :
          /\ tasks[i].fault = "executor"
          /\ response.results[i].status = "error"
          /\ response.results[j].status = "success"

\* the files whose extraction is running in an executor thread
Extracting == {i \in 1..Len(files) : tasks[i].pc = "running"}

\* C14: the number of extractions running at the same time stays under a
\* maximum that does not grow with the batch: in a batch of the largest size
\* the extractions of all its files are never running at once.
C14_ConcurrencyBounded ==
    Len(files) = MaxFiles => Cardinality(Extracting) < MaxFiles

Hung == {i \in 1..Len(files) : tasks[i].pc = "hung"}

\* C15: when the extraction of a file of the batch never returns, the batch
\* is still answered: the response is eventually made, completed, with an
\* error entry for every file that hung.
C15_HungFileTimesOut ==
    (Hung # {}) ~>
        (/\ response.made /\ response.status = "completed"
         /\ \A i \in Hung : response.results[i].status = "error")

(***************************************************************************)
(* Properties of the trainable extractor.                                  *)
(***************************************************************************)
\* C9: starting from the default weights, after any number of train calls
\* (and inside them) every pattern weight is at least 0.1.
C9_WeightsAboveFloor ==
    \A f \in DOMAIN pattern_weights :
        \A i \in 1..Len(pattern_weights[f]) : pattern_weights[f][i] >= WeightFloor

\* C9 witness: a weight was penalised all the way down to the floor and a
\* further penalty step was taken.
C9_Witness ==
    /\ \E i \in 1..Len(pattern_weights["inn"]) : pattern_weights["inn"][i] = WeightFloor
    /\ training.active /\ training.epoch > MaxEpochs - 3

RuleMatches(text, field, p) == extract_with_pattern(text, patterns[field][p])

MatchingRules(text, field) ==
    {p \in 1..Len(patterns[field]) : RuleMatches(text, field, p) # <<>>}

\* the rule of the greatest weight among those that match, the one of the
\* lowest index when several have that weight; 0 when no rule matches
WinningRule(text, field, weights) ==
    IF MatchingRules(text, field) = {} THEN 0
    ELSE CHOOSE p \in MatchingRules(text, field) :
             \A q \in MatchingRules(text, field) :
                 \/ weights[field][q] < weights[field][p]
                 \/ weights[field][q] = weights[field][p] /\ p <= q

\* C16: for each mandatory field the trainable extractor returns the cleaned
\* first match of the matching rule of the greatest weight, of the lowest
\* index among rules of that weight, and UNRECOGNIZED when no rule matches.
C16_HighestWeightLowestIndex ==
    prediction.made /\ prediction.path = "ml" =>
        \A field \in MandatoryKeys :
            prediction.ret[field] =
                IF WinningRule(prediction.text, field, prediction.weights) = 0 THEN UNRECOGNIZED
                ELSE _clean_value(
                         RuleMatches(prediction.text, field,
                                     WinningRule(prediction.text, field, prediction.weights))[1],
                         field)

\* C16 witness: the trainable extractor returned the date of a later rule
\* because training had taken the earlier matching rule below it.
C16_Witness ==
    /\ prediction.made /\ prediction.path = "ml"
    /\ \E p, q \in MatchingRules(prediction.text, "date") :
          /\ q < p
          /\ prediction.weights["date"][q] < prediction.weights["date"][p]
          /\ WinningRule(prediction.text, "date", prediction.weights) = p
          /\ prediction.ret["date"] = StrV(strip(RuleMatches(prediction.text, "date", p)[1]))
          /\ prediction.ret["date"] # StrV(strip(RuleMatches(prediction.text, "date", q)[1]))

\* whether the prediction for a field of an example counts as a match
PredictionMatches(example, field, weights) ==
    IsCorrect(str(extract_field(example.text, field, weights)), example.truth[field])

\* the weight the claim gives rule i of a field after a step on an example
WeightAfter(example, field, i, weights) ==
    IF field \notin DOMAIN example.truth \/ WinningRule(example.text, field, weights) # i
    THEN weights[field][i]
    ELSE IF PredictionMatches(example, field, weights) THEN weights[field][i] + 1
    ELSE IF weights[field][i] - 1 < WeightFloor THEN WeightFloor
    ELSE weights[field][i] - 1

\* C17: a training step on an example changes, for each mandatory field in
\* its ground truth, the weight of the rule that produced the prediction and
\* no other weight: by +0.01 on a match, by -0.01 held at 0.1 on a mismatch.
C17_OnlyWinningRuleChanges ==
    [][training.active /\ training'.active /\ training'.idx = training.idx + 1
       => \A field \in DOMAIN pattern_weights :
              \A i \in 1..Len(pattern_weights[field]) :
                  pattern_weights'[field][i] =
                      WeightAfter(training.data[training.idx], field, i, pattern_weights)]_vars

(***************************************************************************)
(* Properties of the labelling script.                                     *)
(***************************************************************************)
\* the decimal-looking numbers of a text: digits, a point or comma, digits
AmountsIn(text) ==
    LET found == finditer(auto_amount_re, text, FALSE)
        parsed == {float(replace(group(text, found[j], 1), 44, <<46>>)) : j \in 1..Len(found)}
    IN  {f.val : f \in {g \in parsed : g.ok}}

\* neither a labelled total nor an equals-sign total is in the text
Unlabelled(text) ==
    ~search(auto_total_re, text, TRUE).ok /\ ~search(auto_equals_re, text, FALSE).ok

FallbackUsed == labelling.called /\ Unlabelled(labelling.text)

TotalKeptAsString ==
    /\ prediction.made
    /\ prediction.ret["total"].ty = "str"
    /\ prediction.ret["total"] # UNRECOGNIZED

\* C21: when the matched amount does not parse as a number, the total that is
\* returned is the cleaned string: it has no space and no decimal comma left
C21_CleanedStringOnFailure ==
    TotalKeptAsString =>
        \A k \in 1..Len(prediction.ret["total"].v) : prediction.ret["total"].v[k] \notin {32, 44}

(***************************************************************************)
(* A page of the submitted document on which the OCR call raises.          *)
(***************************************************************************)
\* pytesseract.image_to_string raised on page k of the document
OcrFailedOn(k) ==
    /\ doc.opens
    /\ k \in 1..Len(doc.pages)
    /\ needs_ocr(doc.pages[k].layer)
    /\ doc.pages[k].renders
    /\ ~doc.pages[k].ocr.ok

\* what a page gives: its text layer, or what the OCR read, nothing when the
\* OCR call raised
PageYield(page) ==
    IF ~needs_ocr(page.layer) THEN page.layer
    ELSE IF page.ocr.ok THEN page.ocr.text
    ELSE <<>>

\* the pages' texts one after the other, each closed by a line feed
RECURSIVE InPageOrder(_, _)
InPageOrder(pages, k) ==
    IF k > Len(pages) THEN <<>>
    ELSE PageYield(pages[k]) \o <<10>> \o InPageOrder(pages, k + 1)

\* C22: when the OCR call fails on a page of a document (whose pages all
\* render), that page gives empty text and the text of the document is still
\* the texts of all its pages in page order
C22_OcrFailureKeepsOtherPages ==
    (/\ last.made
     /\ \E k \in 1..Len(doc.pages) : OcrFailedOn(k)
     /\ \A k \in 1..Len(doc.pages) : doc.pages[k].renders)
    => last.text = InPageOrder(doc.pages, 1)

\* a two-page scan whose first page fails in the OCR call was processed and
\* the text of its second page was kept
C22_Witness ==
    /\ last.made
    /\ Len(doc.pages) = 2
    /\ OcrFailedOn(1)
    /\ doc.pages[2].ocr.ok
    /\ last.text = <<10>> \o doc.pages[2].ocr.text \o <<10>>
    /\ doc.pages[2].ocr.text # <<>>

(***************************************************************************)
(* The files of a batch, each against its own extraction.                  *)
(***************************************************************************)
\* the entry of a file submitted alone: what its validation returns, or the
\* entry for what extract_invoice_data makes of its bytes
AloneEntry(file) ==
    IF process_one_file_validate(file).pc = "done"
    THEN process_one_file_validate(file).result
    ELSE EntryOf(file, extract_invoice_data(file.pdf, HYBRID_BERT_MODEL, EmptyConfidence, FALSE).ret)

AllUpdatesApplied ==
    \/ training.epoch = training.epochs
    \/ training.epoch = training.epochs - 1 /\ training.idx > Len(training.data)

\* C24: an extraction made while a train call is running works with the
\* weight table as it was when the call was entered, or with the table that
\* has every update of the call, never with a table between the two
C24_TrainingPublishesAtomically ==
    [][training.active /\ prediction' # prediction =>
          prediction'.weights = training.before \/ AllUpdatesApplied]_vars

(***************************************************************************)
(* The pairs of auto_extracted in the record of the latest call.           *)
(***************************************************************************)
\* the (key, value) items of auto_extracted, none when the record has no such key
AutoExtracted ==
    IF "auto_extracted" \in DOMAIN last.ret THEN last.ret["auto_extracted"].v ELSE <<>>

\* the words of a value, which has single spaces between them
Words(value) == count(value, 32) + 1

\* what a kept pair satisfies apart from the number of its words
LabelledAndSized(key, value) ==
    /\ \E useful \in useful_keys : Contains(key, useful)
    /\ ~(\E stop \in stop_keys : Contains(key, stop))
    /\ Len(value) >= 2 /\ Len(value) <= 100
    /\ lower(LastWord(value)) \notin prepositions

UnrecognizedFields(example, weights) ==
    {f \in DOMAIN example.truth :
        /\ example.truth[f] # <<>>
        /\ InvoiceDataExtractor_predict(example.text, weights)[f] = UNRECOGNIZED}

\* C26: the step of train over an example adds 1 to the loss of the epoch for
\* each of its fields that is predicted as the sentinel against a non-empty
\* ground truth, and counts none of them as correct
C26_UnrecognizedIsIncorrect ==
    [][training.active /\ training'.active /\ training'.idx = training.idx + 1 =>
          LET example == training.data[training.idx]
              missed == Cardinality(UnrecognizedFields(example, pattern_weights))
          IN  /\ training'.epoch_loss >= training.epoch_loss + missed
              /\ training'.correct_predictions + missed
                     <= training.correct_predictions + Cardinality(DOMAIN example.truth)]_vars

(***************************************************************************)
(* The shape of the batch response.                                        *)
(***************************************************************************)
\* an entry with status "success": a data record that has no "error" key,
\* and no error message
WellFormedSuccess(entry) ==
    /\ "data" \in DOMAIN entry
    /\ "error" \notin DOMAIN entry
    /\ "error" \notin DOMAIN entry.data

\* an entry with status "error": an error message and no data
WellFormedError(entry) == "error" \in DOMAIN entry /\ "data" \notin DOMAIN entry

\* C27: in a batch response total is the number of submitted files and of
\* results, every result is a well-formed "success" or "error" entry, and
\* successful + failed = total
C27_ResponseWellFormed ==
    response.made =>
        /\ response.total = Len(files)
        /\ response.total = Len(response.results)
        /\ response.successful + response.failed = response.total
        /\ \A i \in 1..Len(response.results) :
              \/ response.results[i].status = "success" /\ WellFormedSuccess(response.results[i])
              \/ response.results[i].status = "error" /\ WellFormedError(response.results[i])

\* a response to two files, one extracted and one whose extraction gave an
\* error record
C27_Witness ==
    /\ response.made
    /\ response.total = 2 /\ response.successful = 1 /\ response.failed = 1
    /\ \E i \in 1..2 : /\ response.results[i].status = "error"
                       /\ process_one_file_validate(files[i]).pc = "running"
                       /\ tasks[i].fault = "none"

(***************************************************************************)
(* The same text on the hybrid extractor and on the regex fallback.        *)
(***************************************************************************)
\* two records have the same mandatory keys, and a key recognized in both has
\* values of one type
SameShape(a, b) ==
    \A k \in MandatoryKeys :
        /\ k \in DOMAIN a <=> k \in DOMAIN b
        /\ (/\ k \in DOMAIN a /\ k \in DOMAIN b
            /\ a[k] # UNRECOGNIZED /\ b[k] # UNRECOGNIZED) => a[k].ty = b[k].ty

\* C28: when the document is submitted once with the hybrid model loaded and
\* once without it, and neither call gives an error record, the two records
\* have the same mandatory keys and value types
C28_PathsAgreeOnShape ==
    [][(/\ last.made /\ last'.made
        /\ last.model.loaded # last'.model.loaded
        /\ "error" \notin DOMAIN last.ret /\ "error" \notin DOMAIN last'.ret)
       => SameShape(last.ret, last'.ret)]_vars

(***************************************************************************)
(* The weighted extractor against a cascade over the same rules.           *)
(***************************************************************************)
\* the weights of a field are all the same
EqualWeights(weights, field) ==
    \A i, j \in 1..Len(weights[field]) : weights[field][i] = weights[field][j]

\* a short-circuiting cascade over the rules of a field: the first occurrence
\* found by the first rule that matches, cleaned; the sentinel when none does
Cascade(text, field) ==
    IF FirstMatch(patterns[field], text, TRUE, 1).ok
    THEN _clean_value(group(text, FirstMatch(patterns[field], text, TRUE, 1), 1), field)
    ELSE UNRECOGNIZED

\* C29: for a field whose weights are all equal the trainable extractor
\* returns what the cascade over the rules of the field returns
C29_EqualWeightsIsCascade ==
    prediction.made /\ prediction.path = "ml" =>
        \A field \in MandatoryKeys :
            EqualWeights(prediction.weights, field) =>
                prediction.ret[field] = Cascade(prediction.text, field)

\* the extractor was called with equal weights on a text in which several
\* rules of the date match, and returned a date
C29_Witness ==
    /\ prediction.made /\ prediction.path = "ml"
    /\ EqualWeights(prediction.weights, "date")
    /\ Cardinality(MatchingRules(prediction.text, "date")) >= 2
    /\ prediction.ret["date"] # UNRECOGNIZED

(***************************************************************************)
(* The extractor saved to a file and loaded from it.                       *)
(***************************************************************************)
\* C30: load of the file that save wrote succeeds, whatever the state of the
\* saved extractor (never trained and trained with zero epochs included), and
\* the loaded model has the pattern weights, training history, is_trained
\* flag, version and training date that were saved
C30_SaveLoadRoundTrips ==
    loaded.made => ~loaded.raised /\ loaded.model = model_file.model_data
====
